---------------------------- MODULE Spec2Model ----------------------------
(***************************************************************************)
(* A model of the conference agent backend (python-backend-conf):          *)
(*   main.py                    routing, context loading, /chat, /user     *)
(*   database.py                the query gateway                          *)
(*   schedule_agent_tools.py    the schedule aggregators                   *)
(*   networking_agent_tools.py  the networking aggregators                 *)
(*                                                                         *)
(* Python strings that the code inspects (lower(), `in`, split(), strip()) *)
(* are sequences of one-character strings.  Python's None is the sequence  *)
(* <<"None">>, which no string of characters equals.  A text the code      *)
(* builds with an f-string is the sequence of its literal and interpolated *)
(* parts.                                                                  *)
(***************************************************************************)
EXTENDS Integers, Sequences, FiniteSets, TLC

VARIABLES
    users,            \* the users collection of the store
    sessions,         \* the conference_schedules collection
    businesses,       \* the ib_businesses collection
    message,          \* request.message
    registration_id,  \* request.registration_id
    pc,               \* the position of the running request
    context,          \* the AirlineAgentContext of the request
    selected_agent,   \* the agent determine_agent chose
    attempts,         \* the handler invocations tried so far, in order
    call,             \* the aggregator invocation in progress
    response,         \* what the handler invocation returned
    customer_info,    \* the customer-info block
    reply,            \* what the endpoint answered
    queries,          \* the lookups the running request issued, in order
    previous,         \* what the same tool call returned the time before
    written           \* another client wrote to the store since that call began

vars == << users, sessions, businesses, message, registration_id, pc, context,
           selected_agent, attempts, call, response, customer_info, reply, queries,
           previous, written >>

store == << users, sessions, businesses >>

twice == << previous, written >>

(***************************************************************************)
(* Strings                                                                 *)
(***************************************************************************)
None == <<"None">>

UpperToLower ==
    [A |-> "a", B |-> "b", C |-> "c", D |-> "d", E |-> "e", F |-> "f", G |-> "g",
     H |-> "h", I |-> "i", J |-> "j", K |-> "k", L |-> "l", M |-> "m", N |-> "n",
     O |-> "o", P |-> "p", Q |-> "q", R |-> "r", S |-> "s", T |-> "t", U |-> "u",
     V |-> "v", W |-> "w", X |-> "x", Y |-> "y", Z |-> "z"]

\* str.lower()
Lower(s) ==
    [i \in 1..Len(s) |-> IF s[i] \in DOMAIN UpperToLower THEN UpperToLower[s[i]] ELSE s[i]]

\* sub in s
Contains(sub, s) ==
    \E i \in 0..(Len(s) - Len(sub)) : SubSeq(s, i + 1, i + Len(sub)) = sub

\* any(k in s for k in keywords)
AnyIn(keywords, s) == \E i \in 1..Len(keywords) : Contains(keywords[i], s)

\* str.split(): the maximal runs of non-blank characters, in order
RECURSIVE SplitFrom(_, _, _)
SplitFrom(s, i, word) ==
    IF i > Len(s)
    THEN IF word = <<>> THEN <<>> ELSE <<word>>
    ELSE IF s[i] = " "
         THEN IF word = <<>> THEN SplitFrom(s, i + 1, <<>>)
                             ELSE <<word>> \o SplitFrom(s, i + 1, <<>>)
         ELSE SplitFrom(s, i + 1, Append(word, s[i]))

Split(s) == SplitFrom(s, 1, <<>>)

\* " ".join(words)
RECURSIVE JoinWords(_)
JoinWords(words) ==
    IF words = <<>> THEN <<>>
    ELSE IF Len(words) = 1 THEN words[1]
    ELSE words[1] \o <<" ">> \o JoinWords(Tail(words))

\* words[n:]
Drop(words, n) == SubSeq(words, n + 1, Len(words))

\* str.strip()
RECURSIVE LStrip(_)
LStrip(s) == IF s # <<>> /\ s[1] = " " THEN LStrip(Tail(s)) ELSE s

RECURSIVE RStrip(_)
RStrip(s) == IF s # <<>> /\ s[Len(s)] = " " THEN RStrip(SubSeq(s, 1, Len(s) - 1)) ELSE s

Strip(s) == RStrip(LStrip(s))

\* the text an f-string gives for a string value
RECURSIVE Show(_)
Show(s) == IF s = <<>> THEN "" ELSE s[1] \o Show(Tail(s))

\* the characters an f-string gives for an optional string
Format(s) == IF s = <<"None">> THEN <<"N","o","n","e">> ELSE s

\* bool(x) of an optional string: None and "" are falsy
Truthy(s) == s # None /\ s # <<>>

\* d.get(key, default)
Get(d, key, default) == IF key \in DOMAIN d THEN d[key] ELSE default

\* the characters of the model in code point order
Alphabet ==
    << " ", "0", "1", "2", "3", "4", "5", "6", "7", "8", "9", "@",
       "A", "B", "C", "D", "E", "F", "G", "H", "I", "J", "K", "L", "M",
       "N", "O", "P", "Q", "R", "S", "T", "U", "V", "W", "X", "Y", "Z",
       "a", "b", "c", "d", "e", "f", "g", "h", "i", "j", "k", "l", "m",
       "n", "o", "p", "q", "r", "s", "t", "u", "v", "w", "x", "y", "z" >>

Ord(c) == CHOOSE i \in 1..Len(Alphabet) : Alphabet[i] = c

\* a < b for Python strings
RECURSIVE StrLess(_, _)
StrLess(a, b) ==
    IF b = <<>> THEN FALSE
    ELSE IF a = <<>> THEN TRUE
    ELSE IF a[1] = b[1] THEN StrLess(Tail(a), Tail(b))
    ELSE Ord(a[1]) < Ord(b[1])

\* sorted(set): the strings of a set in ascending order
RECURSIVE Sorted(_)
Sorted(S) ==
    IF S = {} THEN <<>>
    ELSE LET least == CHOOSE x \in S : \A y \in S \ {x} : StrLess(x, y)
         IN <<least>> \o Sorted(S \ {least})

(***************************************************************************)
(* The three agents (main.py), named by Agent.name                         *)
(***************************************************************************)
schedule_agent == "Schedule Agent"

networking_agent == "Networking Agent"

triage_agent == "Triage Agent"

Agents == {triage_agent, schedule_agent, networking_agent}

schedule_keywords ==
    << <<"s","e","s","s","i","o","n">>, <<"s","e","s","s","i","o","n","s">>, <<"s","p","e","a","k","e","r">>,
       <<"s","p","e","a","k","e","r","s">>, <<"s","c","h","e","d","u","l","e">>, <<"a","g","e","n","d","a">>,
       <<"t","r","a","c","k">>, <<"t","r","a","c","k","s">>, <<"r","o","o","m">>,
       <<"r","o","o","m","s">>, <<"c","o","n","f","e","r","e","n","c","e">>, <<"t","a","l","k">>,
       <<"t","a","l","k","s">>, <<"p","r","e","s","e","n","t","a","t","i","o","n">>, <<"p","r","e","s","e","n","t","a","t","i","o","n","s">>,
       <<"t","o","p","i","c">>, <<"t","o","p","i","c","s">>, <<"t","i","m","e">>,
       <<"w","h","e","n">>, <<"h","o","w"," ","m","a","n","y"," ","s","e","s","s","i","o","n","s">>, <<"h","o","w"," ","m","a","n","y"," ","s","p","e","a","k","e","r","s">>,
       <<"s","e","s","s","i","o","n"," ","c","o","u","n","t">>, <<"s","p","e","a","k","e","r"," ","c","o","u","n","t">> >>

networking_keywords ==
    << <<"b","u","s","i","n","e","s","s">>, <<"b","u","s","i","n","e","s","s","e","s">>, <<"c","o","m","p","a","n","y">>,
       <<"c","o","m","p","a","n","i","e","s">>, <<"n","e","t","w","o","r","k","i","n","g">>, <<"i","n","d","u","s","t","r","y">>,
       <<"s","e","c","t","o","r">>, <<"u","s","e","r">>, <<"u","s","e","r","s">>,
       <<"p","r","o","f","i","l","e">>, <<"p","r","o","f","i","l","e","s">>, <<"c","o","n","n","e","c","t">>,
       <<"c","o","n","n","e","c","t","i","o","n">>, <<"d","i","r","e","c","t","o","r","y">>, <<"h","o","w"," ","m","a","n","y"," ","u","s","e","r","s">>,
       <<"h","o","w"," ","m","a","n","y"," ","b","u","s","i","n","e","s","s","e","s">>, <<"b","u","s","i","n","e","s","s"," ","c","o","u","n","t">>, <<"u","s","e","r"," ","c","o","u","n","t">>,
       <<"i","n","d","u","s","t","r","y"," ","b","r","e","a","k","d","o","w","n">> >>

\* Seeded fault: the networking keywords tested first.
determine_agent_networking_first(msg) ==
    IF AnyIn(networking_keywords, Lower(msg)) THEN networking_agent
    ELSE IF AnyIn(schedule_keywords, Lower(msg)) THEN schedule_agent
    ELSE triage_agent

\* Seeded fault: the keywords are looked for in the message as typed, not lower-cased
determine_agent_case_sensitive(msg) ==
    IF AnyIn(schedule_keywords, msg) THEN schedule_agent
    ELSE IF AnyIn(networking_keywords, msg) THEN networking_agent
    ELSE triage_agent

determine_agent(msg) ==
    LET message_lower == Lower(msg) IN
    IF AnyIn(schedule_keywords, message_lower) THEN schedule_agent
    ELSE IF AnyIn(networking_keywords, message_lower) THEN networking_agent
    ELSE triage_agent

(***************************************************************************)
(* Messages: up to MaxWords words of the vocabulary joined by one blank.   *)
(* The empty word gives leading, trailing and doubled blanks.              *)
(***************************************************************************)
MaxWords == 4

Vocabulary ==
    { <<>>, <<"H","i">>, <<"T","h","i","s">>, <<"S","e","s","s","i","o","n","s">>,
      <<"b","y">>, <<"B","o","b">>, <<"B","u","s","i","n","e","s","s">>,
      <<"a","g","e","n","d","a">> }

WordLists == UNION { [1..n -> Vocabulary] : n \in 1..MaxWords }

Messages == { JoinWords(ws) : ws \in WordLists }


(***************************************************************************)
(* The store.  A collection is the sequence of its rows in the order the   *)
(* service returns them.  A row is a record; a JSON null in a place that   *)
(* holds an object or a number is Null, in a place that holds a string it  *)
(* is None.  Dates and times are strings of one digit.                     *)
(***************************************************************************)
Null == [null |-> TRUE]

R1 == <<"R","1">>

R2 == <<"R","2">>

R3 == <<"R","3">>

R9 == <<"R","9">>

UserPool ==
    << [id |-> <<"u","1">>,
        details |-> [registration_id |-> R1, user_name |-> <<"A","n","n">>,
                     email |-> <<"a","@","x">>, firstName |-> <<"A","n","n">>,
                     lastName |-> <<"L","e","e">>]],
       [id |-> <<"u","2">>,
        details |-> [registration_id |-> R2, firstName |-> <<"B","o">>,
                     lastName |-> <<"L","i">>]],
       [id |-> <<"u","3">>,
        details |-> [registration_id |-> R3, user_name |-> None,
                     email |-> <<"c","@","x">>]] >>

SessionPool ==
    << [id |-> <<"1">>, topic |-> <<"A","I">>, speaker_name |-> <<"A">>,
        conference_date |-> <<"2">>, start_time |-> <<"1">>, end_time |-> <<"2">>,
        conference_room_name |-> <<"H","1">>, track_name |-> <<"T","1">>],
       [id |-> <<"2">>, topic |-> <<"O","p","s">>, speaker_name |-> <<"A">>,
        conference_date |-> <<"1">>, start_time |-> <<"2">>, end_time |-> <<"3">>,
        conference_room_name |-> <<"H","1">>, track_name |-> None],
       [id |-> <<"3">>, topic |-> <<"a","i"," ","l","a","w">>, speaker_name |-> <<"B">>,
        conference_date |-> <<"1">>, start_time |-> <<"1">>, end_time |-> <<"2">>,
        conference_room_name |-> <<" ">>, track_name |-> <<"T","2">>],
       [id |-> <<"4">>, topic |-> <<"B","o","b">>, speaker_name |-> <<>>,
        conference_date |-> <<"2">>, start_time |-> <<"1">>, end_time |-> <<"2">>,
        conference_room_name |-> <<"H","2">>, track_name |-> <<"T","1">>] >>

BusinessPool ==
    << [id |-> <<"1">>, user_id |-> <<"u","1">>,
        details |-> [companyName |-> <<"A","c","m","e">>, industrySector |-> <<"T","e","c","h">>,
                     subSector |-> <<"A","I">>, location |-> <<"R","o","m","e">>,
                     positionTitle |-> <<"C","E","O">>]],
       [id |-> <<"2">>, user_id |-> <<"u","2">>,
        details |-> [companyName |-> <<"B","a","n","k">>, industrySector |-> <<"F","i","n","T","e","c","h">>,
                     location |-> <<"R","o","m","e">>]],
       [id |-> <<"3">>, user_id |-> <<"u","1">>,
        details |-> [companyName |-> <<"C","a","r","e">>, industrySector |-> <<"H","e","a","l","t","h">>,
                     location |-> <<"O","s","l","o">>]] >>

\* the rows of pool whose index is in present, in pool order
RECURSIVE Rows(_, _, _)
Rows(pool, present, i) ==
    IF i > Len(pool) THEN <<>>
    ELSE (IF i \in present THEN <<pool[i]>> ELSE <<>>) \o Rows(pool, present, i + 1)

Collections(pool) == { Rows(pool, present, 1) : present \in SUBSET (1..Len(pool)) }

\* [f(x) for x in rows if p(x)] is SelectSeq; rows[:n]
Take(rows, n) ==
    IF n >= 0 THEN SubSeq(rows, 1, IF n < Len(rows) THEN n ELSE Len(rows))
    ELSE SubSeq(rows, 1, IF Len(rows) + n > 0 THEN Len(rows) + n ELSE 0)

(***************************************************************************)
(* database.py: CustomDatabaseClient.query.  A filter is a record          *)
(* [column, subfield, value]: subfield is "" for a plain column and the    *)
(* key of the JSON path column->>subfield otherwise.  The join             *)
(* of select_fields with users!inner is applied by JoinUsers.              *)
(***************************************************************************)
\* query.filter(key, "eq", value) on a JSON path, query.eq(key, value) on a column
Matches(row, f) ==
    IF f.subfield # ""
    THEN /\ f.column \in DOMAIN row
         /\ row[f.column] # Null
         /\ f.subfield \in DOMAIN row[f.column]
         /\ row[f.column][f.subfield] = f.value
    ELSE /\ f.column \in DOMAIN row
         /\ row[f.column] = f.value

MatchesAll(row, filters) == \A i \in 1..Len(filters) : Matches(row, filters[i])

\* row a comes before row b under ORDER BY order_by
RECURSIVE Before(_, _, _)
Before(a, b, order_by) ==
    IF order_by = <<>> THEN FALSE
    ELSE LET col == order_by[1].column
             asc == order_by[1].ascending
         IN IF a[col] = b[col] THEN Before(a, b, Tail(order_by))
            ELSE IF asc THEN StrLess(a[col], b[col]) ELSE StrLess(b[col], a[col])

\* insertion of row into a sorted sequence, after the rows it does not precede
RECURSIVE Insert(_, _, _)
Insert(row, sorted, order_by) ==
    IF sorted = <<>> THEN <<row>>
    ELSE IF Before(row, sorted[1], order_by) THEN <<row>> \o sorted
    ELSE <<sorted[1]>> \o Insert(row, Tail(sorted), order_by)

RECURSIVE Ordered(_, _)
Ordered(rows, order_by) ==
    IF rows = <<>> THEN <<>>
    ELSE Insert(rows[Len(rows)], Ordered(SubSeq(rows, 1, Len(rows) - 1), order_by), order_by)

\* select(select_fields): the listed columns of a row
Project(row, fields) == [c \in (DOMAIN row) \cap fields |-> row[c]]

AllColumns ==
    {"id", "details", "user_id", "users", "topic", "speaker_name", "conference_date",
     "start_time", "end_time", "conference_room_name", "track_name"}

\* the users!inner join: a business row with its user embedded, dropped when it has none
JoinUsers(rows, userRows) ==
    LET has(b) == \E i \in 1..Len(userRows) : userRows[i].id = b.user_id
        userOf(b) == userRows[CHOOSE i \in 1..Len(userRows) : userRows[i].id = b.user_id]
        kept == SelectSeq(rows, has)
    IN [i \in 1..Len(kept) |->
            [c \in (DOMAIN kept[i]) \cup {"users"} |->
                IF c = "users" THEN userOf(kept[i]) ELSE kept[i][c]]]

\* the rows the service answers with: response.data
ResponseData(rows, fields, filters, order_by, limit) ==
    LET filtered == SelectSeq(rows, LAMBDA r : MatchesAll(r, filters))
        ordered  == IF order_by # <<>> THEN Ordered(filtered, order_by) ELSE filtered
        limited  == IF limit # Null /\ limit.int # 0 THEN Take(ordered, limit.int) ELSE ordered
    IN [i \in 1..Len(limited) |-> Project(limited[i], fields)]

\* query(...) when the service answers: response.data, or its first row or None
query(rows, fields, filters, order_by, limit, single) ==
    LET data == ResponseData(rows, fields, filters, order_by, limit)
    IN IF single THEN (IF data # <<>> THEN data[1] ELSE Null) ELSE data

\* what a lookup gives its caller: the value returned, or the exception raised
Returned(value) == [raised |-> FALSE, value |-> value]

Raised == [raised |-> TRUE, value |-> "store unavailable"]

(***************************************************************************)
(* Helpers of the aggregators                                              *)
(***************************************************************************)
\* the concatenation of f(i, rows[i]) for i = 1..len(rows): enumerate(rows, 1)
RECURSIVE Flatten(_)
Flatten(seqs) == IF seqs = <<>> THEN <<>> ELSE seqs[1] \o Flatten(Tail(seqs))

Enumerate(rows, f(_, _)) == Flatten([i \in 1..Len(rows) |-> f(i, rows[i])])

\* session.get(key, default) as an f-string prints it
Field(row, key, default) == IF key \in DOMAIN row THEN Show(row[key]) ELSE default

\* an exception raised by the aggregator's own code on a row it cannot read
AttributeError == [raised |-> TRUE, value |-> "AttributeError"]

\* the conference_schedules columns
SessionColumns ==
    {"id", "topic", "speaker_name", "conference_date", "start_time", "end_time",
     "conference_room_name", "track_name"}

DateThenStart ==
    << [column |-> "conference_date", ascending |-> TRUE],
       [column |-> "start_time", ascending |-> TRUE] >>

Eq(column, value) == [column |-> column, subfield |-> "", value |-> value]

JsonEq(column, subfield, value) == [column |-> column, subfield |-> subfield, value |-> value]

\* an Optional[int]: Null, or the integer boxed
Some(n) == [int |-> n]

DefaultLimit == 10

(***************************************************************************)
(* schedule_agent_tools.py.  An aggregator is an operator of the outcome r *)
(* of its lookup (Returned or Raised); its except clause turns every       *)
(* exception of its body into an error text.                               *)
(***************************************************************************)
RenderSession(i, s, withSpeaker) ==
    << ToString(i), ". **", Field(s, "topic", "Unknown Topic"), "**\n" >>
    \o (IF withSpeaker THEN << "   Speaker: ", Field(s, "speaker_name", "TBA"), "\n" >> ELSE << >>)
    \o << "   Date: ", Field(s, "conference_date", "TBA"), "\n",
          "   Time: ", Field(s, "start_time", "TBA"), " - ", Field(s, "end_time", "TBA"), "\n",
          "   Room: ", Field(s, "conference_room_name", "TBA"), "\n",
          "   Track: ", Field(s, "track_name", "TBA"), "\n\n" >>

\* the filters dict get_conference_sessions builds from its truthy arguments
session_filters(args) ==
    LET one(key) == IF Truthy(args[key]) THEN << Eq(key, args[key]) >> ELSE << >>
    IN one("speaker_name") \o one("topic") \o one("conference_room_name")
       \o one("track_name") \o one("conference_date")

\* get_conference_sessions() called with no argument
NoSessionArgs ==
    [speaker_name |-> None, topic |-> None, conference_room_name |-> None,
     track_name |-> None, conference_date |-> None, limit |-> Some(DefaultLimit)]

get_conference_sessions(r) ==
    IF r.raised THEN << "Error fetching conference sessions: ", r.value >>
    ELSE IF r.value = << >>
    THEN << "No conference sessions found matching the specified criteria." >>
    ELSE << "Found ", ToString(Len(r.value)), " conference session(s):\n\n" >>
         \o Enumerate(r.value, LAMBDA i, x : RenderSession(i, x, TRUE))

\* set(item[key] for item in rows if item.get(key) and item[key].strip())
NonBlank(rows, key) ==
    { rows[i][key] : i \in { j \in 1..Len(rows) :
                               /\ Truthy(Get(rows[j], key, None))
                               /\ Strip(rows[j][key]) # << >> } }

\* get_all_speakers, get_all_tracks and get_all_rooms share one body
unique_listing(r, key, what, Title) ==
    IF r.raised THEN << "Error fetching " \o what \o "s: ", r.value >>
    ELSE IF r.value = << >> THEN << "No " \o what \o "s found in the conference database." >>
    ELSE LET unique == Sorted(NonBlank(r.value, key))
         IN IF unique = << >> THEN << "No valid " \o what \o " names found." >>
            ELSE << "**Conference " \o Title \o " (", ToString(Len(unique)), " total):**\n\n" >>
                 \o Enumerate(unique, LAMBDA i, x : << ToString(i), ". ", Show(x), "\n" >>)

get_all_speakers(r) == unique_listing(r, "speaker_name", "speaker", "Speakers")

get_all_tracks(r) == unique_listing(r, "track_name", "track", "Tracks")

get_all_rooms(r) == unique_listing(r, "conference_room_name", "room", "Rooms")

search_sessions_by_speaker(speaker_name, r) ==
    IF r.raised THEN << "Error searching sessions: ", r.value >>
    ELSE IF r.value = << >> THEN << "No sessions found for speaker: ", Show(speaker_name) >>
    ELSE << "**Sessions by ", Show(speaker_name), " (", ToString(Len(r.value)), " session(s)):**\n\n" >>
         \o Enumerate(r.value, LAMBDA i, x : RenderSession(i, x, FALSE))

\* session.get('topic', '').lower() raises on a null topic
search_sessions_by_topic(topic_keyword, r) ==
    IF r.raised THEN << "Error searching sessions: ", r.value >>
    ELSE IF \E i \in 1..Len(r.value) : Get(r.value[i], "topic", << >>) = None
    THEN << "Error searching sessions: ", AttributeError.value >>
    ELSE LET matching_sessions ==
                 SelectSeq(r.value, LAMBDA x :
                     Contains(Lower(topic_keyword), Lower(Get(x, "topic", << >>))))
         IN IF matching_sessions = << >>
            THEN << "No sessions found containing topic keyword: ", Show(topic_keyword) >>
            ELSE << "**Sessions containing '", Show(topic_keyword), "' (",
                    ToString(Len(matching_sessions)), " session(s)):**\n\n" >>
                 \o Enumerate(matching_sessions, LAMBDA i, x : RenderSession(i, x, TRUE))

\* set of row[key] over the rows whose row.get(key) is truthy
TruthyValues(rows, key) ==
    { rows[i][key] : i \in { j \in 1..Len(rows) : Truthy(Get(rows[j], key, None)) } }

\* Seeded fault: only the first lookup is inside the try; a failure of the second
\* leaves the count without the statistics
get_session_count_first_only(r1, r2) ==
    IF r1.raised THEN << "Error getting session count: ", r1.value >>
    ELSE << "**Total Conference Sessions:** ", ToString(Len(r1.value)) >>

\* r2 is the outcome of the second lookup, issued only when the count is positive
get_session_count(r1, r2) ==
    IF r1.raised THEN << "Error getting session count: ", r1.value >>
    ELSE LET count == Len(r1.value)
         IN IF count > 0
            THEN IF r2.raised THEN << "Error getting session count: ", r2.value >>
                 ELSE << "**Total Conference Sessions:** ", ToString(count),
                         "\n**Additional Stats:**",
                         "\n- Unique Speakers: ",
                         ToString(Cardinality(TruthyValues(r2.value, "speaker_name"))),
                         "\n- Unique Tracks: ",
                         ToString(Cardinality(TruthyValues(r2.value, "track_name"))),
                         "\n- Unique Rooms: ",
                         ToString(Cardinality(TruthyValues(r2.value, "conference_room_name"))) >>
            ELSE << "**Total Conference Sessions:** ", ToString(count) >>

\* Seeded fault: the whitespace-only names are counted, as get_session_count counts them
get_speaker_count_no_strip(r) ==
    IF r.raised THEN << "Error getting speaker count: ", r.value >>
    ELSE IF r.value = << >> THEN << "**Total Unique Speakers:** 0" >>
    ELSE << "**Total Unique Speakers:** ",
            ToString(Cardinality(TruthyValues(r.value, "speaker_name"))) >>

get_speaker_count(r) ==
    IF r.raised THEN << "Error getting speaker count: ", r.value >>
    ELSE IF r.value = << >> THEN << "**Total Unique Speakers:** 0" >>
    ELSE << "**Total Unique Speakers:** ",
            ToString(Cardinality(NonBlank(r.value, "speaker_name"))) >>

(***************************************************************************)
(* networking_agent_tools.py                                               *)
(***************************************************************************)
\* search_businesses() called with no argument
NoBusinessArgs ==
    [industry_sector |-> None, location |-> None, company_name |-> None,
     sub_sector |-> None, limit |-> Some(DefaultLimit)]

\* b.get("details", {}).get(key, "").lower() raises on null details or a null value
Unreadable(b, key) ==
    \/ Get(b, "details", [none |-> TRUE]) = Null
    \/ Get(Get(b, "details", [none |-> TRUE]), key, << >>) = None

\* one in-memory filter of search_businesses: the rows kept, or the exception
business_filter(rows, wanted, key) ==
    IF rows.raised \/ ~Truthy(wanted) THEN rows
    ELSE IF \E i \in 1..Len(rows.value) : Unreadable(rows.value[i], key) THEN AttributeError
    ELSE Returned(SelectSeq(rows.value, LAMBDA b :
             Contains(Lower(wanted), Lower(Get(b.details, key, << >>)))))

\* Seeded fault: the limit is applied to the source rows, before the filters
filtered_businesses_limit_first(args, businessRows) ==
    LET cut == IF args.limit # Null /\ args.limit.int # 0
               THEN Take(businessRows, args.limit.int) ELSE businessRows
        f1 == business_filter(Returned(cut), args.industry_sector, "industrySector")
        f2 == business_filter(f1, args.location, "location")
        f3 == business_filter(f2, args.company_name, "companyName")
    IN business_filter(f3, args.sub_sector, "subSector")

\* the rows search_businesses renders, after its filters and its limit
filtered_businesses(args, businessRows) ==
    LET f1 == business_filter(Returned(businessRows), args.industry_sector, "industrySector")
        f2 == business_filter(f1, args.location, "location")
        f3 == business_filter(f2, args.company_name, "companyName")
        f4 == business_filter(f3, args.sub_sector, "subSector")
    IN IF f4.raised THEN f4
       ELSE IF args.limit # Null /\ args.limit.int # 0
            THEN Returned(Take(f4.value, args.limit.int))
            ELSE f4

RenderBusiness(i, b, withContact) ==
    LET details == b.details
        user_info == Get(b, "users", [none |-> TRUE])
    IN << ToString(i), ". **", Field(details, "companyName", "Unknown Company"), "**\n",
          "   Industry: ", Field(details, "industrySector", "Unknown"), "\n" >>
       \o (IF withContact
           THEN << "   Sub-sector: ", Field(details, "subSector", "N/A"), "\n" >> ELSE << >>)
       \o << "   Location: ", Field(details, "location", "Unknown"), "\n" >>
       \o (IF withContact
           THEN << "   Contact: ", Field(user_info, "user_name", "Unknown"),
                   " (", Field(user_info, "email", "N/A"), ")\n" >> ELSE << >>)
       \o << "   Position: ", Field(details, "positionTitle", "N/A"), "\n\n" >>

\* Seeded fault: the check for an empty source collection is missing, so an empty
\* collection is reported as a search that matched nothing
search_businesses_one_message(args, r) ==
    IF r.raised THEN << "Error searching businesses: ", r.value >>
    ELSE LET kept == filtered_businesses(args, r.value)
         IN IF kept.raised THEN << "Error searching businesses: ", kept.value >>
            ELSE IF kept.value = << >>
            THEN << "No businesses found matching the specified criteria." >>
            ELSE << "**Found ", ToString(Len(kept.value)), " business(es):**\n\n" >>
                 \o Enumerate(kept.value, LAMBDA i, b : RenderBusiness(i, b, TRUE))

search_businesses(args, r) ==
    IF r.raised THEN << "Error searching businesses: ", r.value >>
    ELSE IF r.value = << >> THEN << "No businesses found in the database." >>
    ELSE LET kept == filtered_businesses(args, r.value)
         IN IF kept.raised THEN << "Error searching businesses: ", kept.value >>
            ELSE IF kept.value = << >>
            THEN << "No businesses found matching the specified criteria." >>
            ELSE IF \E i \in 1..Len(kept.value) : kept.value[i].details = Null
            THEN << "Error searching businesses: ", AttributeError.value >>
            ELSE << "**Found ", ToString(Len(kept.value)), " business(es):**\n\n" >>
                 \o Enumerate(kept.value, LAMBDA i, b : RenderBusiness(i, b, TRUE))

get_user_businesses(user_id, r) ==
    IF r.raised THEN << "Error fetching user businesses: ", r.value >>
    ELSE IF r.value = << >> THEN << "No businesses found for user ID: ", Show(user_id) >>
    ELSE IF \E i \in 1..Len(r.value) : r.value[i].details = Null
    THEN << "Error fetching user businesses: ", AttributeError.value >>
    ELSE << "**Businesses for User ", Show(user_id), " (", ToString(Len(r.value)),
            " business(es)):**\n\n" >>
         \o Enumerate(r.value, LAMBDA i, b : RenderBusiness(i, b, FALSE))

\* the keys of a counting dict in insertion order: the first occurrences
RECURSIVE FirstSeen(_, _)
FirstSeen(values, seen) ==
    IF values = << >> THEN << >>
    ELSE IF values[1] \in seen THEN FirstSeen(Tail(values), seen)
    ELSE << values[1] >> \o FirstSeen(Tail(values), seen \cup {values[1]})

Occurrences(values, v) == Cardinality({ i \in 1..Len(values) : values[i] = v })

\* sorted(d.items(), key=lambda x: x[1], reverse=True): stable, by descending count
RECURSIVE ByCount(_, _)
ByCount(keys, values) ==
    IF keys = << >> THEN << >>
    ELSE LET most == CHOOSE i \in 1..Len(keys) :
                        /\ \A j \in 1..Len(keys) :
                              Occurrences(values, keys[j]) <= Occurrences(values, keys[i])
                        /\ \A j \in 1..(i - 1) :
                              Occurrences(values, keys[j]) < Occurrences(values, keys[i])
         IN << keys[most] >>
            \o ByCount(SelectSeq(keys, LAMBDA k : k # keys[most]), values)

\* the items of the counting dict over details.get(key, "Unknown"), most frequent first
Counted(rows, key) ==
    LET values == [i \in 1..Len(rows) |-> Get(rows[i].details, key, <<"U","n","k","n","o","w","n">>)]
    IN [keys |-> ByCount(FirstSeen(values, {}), values), values |-> values]

TopN == 5

RenderCounts(c, n) ==
    Enumerate(Take(c.keys, n),
              LAMBDA i, k : << "\n- ", Show(k), ": ", ToString(Occurrences(c.values, k)) >>)

get_business_count(r1, r2) ==
    IF r1.raised THEN << "Error getting business count: ", r1.value >>
    ELSE LET count == Len(r1.value)
         IN IF count > 0
            THEN IF r2.raised THEN << "Error getting business count: ", r2.value >>
                 ELSE IF \E i \in 1..Len(r2.value) : Get(r2.value[i], "details", [none |-> TRUE]) = Null
                 THEN << "Error getting business count: ", AttributeError.value >>
                 ELSE << "**Total Registered Businesses:** ", ToString(count), "\n**Top Industries:**" >>
                      \o RenderCounts(Counted(r2.value, "industrySector"), TopN)
                      \o << "\n**Top Locations:**" >>
                      \o RenderCounts(Counted(r2.value, "location"), TopN)
            ELSE << "**Total Registered Businesses:** ", ToString(count) >>

get_user_count(r) ==
    IF r.raised THEN << "Error getting user count: ", r.value >>
    ELSE << "**Total Registered Users:** ", ToString(Len(r.value)) >>

\* the test of one user row in search_users_by_name: "match", "no" or "error".
\* The four fields are read first (a null details bag raises), then tested in
\* order, the or stopping at the first match (a null field reached raises).
user_match(user, search_term) ==
    LET details == Get(user, "details", [none |-> TRUE])
        fields == << "user_name", "email", "firstName", "lastName" >>
        value(k) == Get(details, fields[k], << >>)
        hit(k) == value(k) # None /\ Contains(Lower(search_term), Lower(value(k)))
        first_hit == IF \E k \in 1..4 : hit(k) THEN CHOOSE k \in 1..4 : hit(k) /\ \A j \in 1..(k - 1) : ~hit(j)
                     ELSE 5
    IN IF details = Null THEN "error"
       ELSE IF \E k \in 1..4 : k < first_hit /\ value(k) = None THEN "error"
       ELSE IF first_hit <= 4 THEN "match" ELSE "no"

\* details.get("user_name") or f"{firstName} {lastName}".strip(), then or 'Unknown Name'
display_name(details) ==
    LET stored == Get(details, "user_name", None)
        built == Strip(Get(details, "firstName", << >>) \o << " " >> \o Get(details, "lastName", << >>))
    IN IF Truthy(stored) THEN Show(stored)
       ELSE IF built # << >> THEN Show(built) ELSE "Unknown Name"

search_users_by_name(search_term, limit, r) ==
    IF r.raised THEN << "Error searching users: ", r.value >>
    ELSE IF r.value = << >> THEN << "No users found in the database." >>
    ELSE IF \E i \in 1..Len(r.value) : user_match(r.value[i], search_term) = "error"
    THEN << "Error searching users: ", AttributeError.value >>
    ELSE LET matching == SelectSeq(r.value, LAMBDA u : user_match(u, search_term) = "match")
             matching_users == IF limit # Null /\ limit.int # 0
                               THEN Take(matching, limit.int) ELSE matching
         IN IF matching_users = << >>
            THEN << "No users found matching search term: ", Show(search_term) >>
            ELSE << "**Found ", ToString(Len(matching_users)), " user(s) matching '",
                    Show(search_term), "':**\n\n" >>
                 \o Enumerate(matching_users, LAMBDA i, u :
                        << ToString(i), ". **", display_name(u.details), "**\n",
                           "   Email: ", Field(u.details, "email", "N/A"), "\n",
                           "   Registration ID: ", Field(u.details, "registration_id", "N/A"), "\n\n" >>)

\* f"{(count / total) * 100:.1f}"
Percentage(count, total) ==
    LET tenths == (2000 * count + total) \div (2 * total)
    IN ToString(tenths \div 10) \o "." \o ToString(tenths % 10)

get_industry_breakdown(r) ==
    IF r.raised THEN << "Error getting industry breakdown: ", r.value >>
    ELSE IF r.value = << >> THEN << "No businesses found in the database." >>
    ELSE IF \E i \in 1..Len(r.value) : Get(r.value[i], "details", [none |-> TRUE]) = Null
    THEN << "Error getting industry breakdown: ", AttributeError.value >>
    ELSE LET c == Counted(r.value, "industrySector")
         IN << "**Industry Breakdown (", ToString(Len(r.value)), " total businesses):**\n\n" >>
            \o Enumerate(c.keys, LAMBDA i, k :
                   << "* **", Show(k), ":** ", ToString(Occurrences(c.values, k)),
                      " businesses (", Percentage(Occurrences(c.values, k), Len(r.value)), "%)\n" >>)

(***************************************************************************)
(* main.py: manual dispatch                                                *)
(***************************************************************************)
greeting_words ==
    << <<"h","e","l","l","o">>, <<"h","i">>, <<"h","e","y">>, <<"w","e","l","c","o","m","e">>, <<"s","t","a","r","t">> >>

schedule_guidance_words ==
    << <<"s","e","s","s","i","o","n">>, <<"s","p","e","a","k","e","r">>, <<"s","c","h","e","d","u","l","e">>, <<"t","r","a","c","k">>, <<"r","o","o","m">> >>

networking_guidance_words ==
    << <<"b","u","s","i","n","e","s","s">>, <<"c","o","m","p","a","n","y">>, <<"n","e","t","w","o","r","k","i","n","g">>, <<"i","n","d","u","s","t","r","y">>, <<"u","s","e","r">> >>

\* the four canned texts of handle_triage_manually, by their first line
greeting_text == << "Welcome to the Aviation Tech Summit 2025! ..." >>

schedule_guidance_text == << "I can help you with conference schedule information! ..." >>

networking_guidance_text == << "I can help you with business networking and connections! ..." >>

default_guidance_text == << "I'm here to help you with the Aviation Tech Summit 2025! ..." >>

\* Seeded fault: the schedule words are tested before the greeting words
handle_triage_manually_schedule_first(msg) ==
    LET message_lower == Lower(msg) IN
    IF AnyIn(schedule_guidance_words, message_lower) THEN schedule_guidance_text
    ELSE IF AnyIn(greeting_words, message_lower) THEN greeting_text
    ELSE IF AnyIn(networking_guidance_words, message_lower) THEN networking_guidance_text
    ELSE default_guidance_text

handle_triage_manually(msg) ==
    LET message_lower == Lower(msg) IN
    IF AnyIn(greeting_words, message_lower) THEN greeting_text
    ELSE IF AnyIn(schedule_guidance_words, message_lower) THEN schedule_guidance_text
    ELSE IF AnyIn(networking_guidance_words, message_lower) THEN networking_guidance_text
    ELSE default_guidance_text

\* an aggregator invocation: the tool and its arguments (defaults filled in)
Call(tool, args) == [tool |-> tool, args |-> args]

NoArgs == [k \in {} |-> None]

\* no aggregator is invoked: handle_agent_manually falls through to its last line
NoCall == Call("none", NoArgs)

industries ==
    << <<"f","i","n","t","e","c","h">>, <<"t","e","c","h">>, <<"h","e","a","l","t","h","c","a","r","e">>, <<"f","i","n","a","n","c","e">> >>

\* the phrases the Schedule Agent branch of handle_agent_manually tests
schedule_phrases ==
    << <<"a","l","l"," ","s","e","s","s","i","o","n","s">>, <<"l","i","s","t"," ","s","e","s","s","i","o","n","s">>,
       <<"a","l","l"," ","s","p","e","a","k","e","r","s">>, <<"l","i","s","t"," ","s","p","e","a","k","e","r","s">>,
       <<"a","l","l"," ","t","r","a","c","k","s">>, <<"l","i","s","t"," ","t","r","a","c","k","s">>,
       <<"a","l","l"," ","r","o","o","m","s">>, <<"l","i","s","t"," ","r","o","o","m","s">>,
       <<"h","o","w"," ","m","a","n","y"," ","s","e","s","s","i","o","n","s">>, <<"s","e","s","s","i","o","n"," ","c","o","u","n","t">>,
       <<"h","o","w"," ","m","a","n","y"," ","s","p","e","a","k","e","r","s">>, <<"s","p","e","a","k","e","r"," ","c","o","u","n","t">>,
       <<"s","e","s","s","i","o","n","s"," ","b","y">>, <<"s","p","e","a","k","e","r">>,
       <<"t","o","p","i","c">>, <<"a","b","o","u","t">> >>

\* the phrases the Networking Agent branch of handle_agent_manually tests
networking_phrases ==
    << <<"a","l","l"," ","b","u","s","i","n","e","s","s","e","s">>, <<"l","i","s","t"," ","b","u","s","i","n","e","s","s","e","s">>,
       <<"h","o","w"," ","m","a","n","y"," ","b","u","s","i","n","e","s","s","e","s">>, <<"b","u","s","i","n","e","s","s"," ","c","o","u","n","t">>,
       <<"h","o","w"," ","m","a","n","y"," ","u","s","e","r","s">>, <<"u","s","e","r"," ","c","o","u","n","t">>,
       <<"i","n","d","u","s","t","r","y"," ","b","r","e","a","k","d","o","w","n">>,
       <<"f","i","n","d"," ","u","s","e","r">>, <<"s","e","a","r","c","h"," ","u","s","e","r">> >>
       \o industries

\* Seeded fault: the Schedule Agent's last branch counts instead of listing, and
\* the Networking Agent's last branch filters by the first industry.
manual_default_wrong(agent) ==
    IF agent = schedule_agent THEN Call("get_session_count", NoArgs)
    ELSE Call("search_businesses", [NoBusinessArgs EXCEPT !.industry_sector = industries[1]])

\* the final else of each branch of handle_agent_manually
manual_default(agent) ==
    IF agent = schedule_agent THEN Call("get_conference_sessions", NoSessionArgs)
    ELSE Call("search_businesses", NoBusinessArgs)

\* the aggregator handle_agent_manually invokes for a message, or NoCall
manual_call(agent, msg) ==
    LET message_lower == Lower(msg)
        has(phrase) == Contains(phrase, message_lower)
        words == Split(msg)
        rest(n) == IF Len(words) > n THEN JoinWords(Drop(words, n)) ELSE << >>
    IN
    IF agent = schedule_agent
    THEN IF has(<<"a","l","l"," ","s","e","s","s","i","o","n","s">>) \/ has(<<"l","i","s","t"," ","s","e","s","s","i","o","n","s">>)
         THEN Call("get_conference_sessions", NoSessionArgs)
         ELSE IF has(<<"a","l","l"," ","s","p","e","a","k","e","r","s">>) \/ has(<<"l","i","s","t"," ","s","p","e","a","k","e","r","s">>)
         THEN Call("get_all_speakers", NoArgs)
         ELSE IF has(<<"a","l","l"," ","t","r","a","c","k","s">>) \/ has(<<"l","i","s","t"," ","t","r","a","c","k","s">>)
         THEN Call("get_all_tracks", NoArgs)
         ELSE IF has(<<"a","l","l"," ","r","o","o","m","s">>) \/ has(<<"l","i","s","t"," ","r","o","o","m","s">>)
         THEN Call("get_all_rooms", NoArgs)
         ELSE IF has(<<"h","o","w"," ","m","a","n","y"," ","s","e","s","s","i","o","n","s">>) \/ has(<<"s","e","s","s","i","o","n"," ","c","o","u","n","t">>)
         THEN Call("get_session_count", NoArgs)
         ELSE IF has(<<"h","o","w"," ","m","a","n","y"," ","s","p","e","a","k","e","r","s">>) \/ has(<<"s","p","e","a","k","e","r"," ","c","o","u","n","t">>)
         THEN Call("get_speaker_count", NoArgs)
         ELSE IF has(<<"s","e","s","s","i","o","n","s"," ","b","y">>) \/ has(<<"s","p","e","a","k","e","r">>)
         THEN IF rest(2) # << >>
              THEN Call("search_sessions_by_speaker", [speaker_name |-> rest(2)])
              ELSE NoCall
         ELSE IF has(<<"t","o","p","i","c">>) \/ has(<<"a","b","o","u","t">>)
         THEN IF rest(1) # << >>
              THEN Call("search_sessions_by_topic", [topic_keyword |-> rest(1)])
              ELSE NoCall
         ELSE manual_default(agent)
    ELSE IF agent = networking_agent
    THEN IF has(<<"a","l","l"," ","b","u","s","i","n","e","s","s","e","s">>) \/ has(<<"l","i","s","t"," ","b","u","s","i","n","e","s","s","e","s">>)
         THEN Call("search_businesses", NoBusinessArgs)
         ELSE IF has(<<"h","o","w"," ","m","a","n","y"," ","b","u","s","i","n","e","s","s","e","s">>) \/ has(<<"b","u","s","i","n","e","s","s"," ","c","o","u","n","t">>)
         THEN Call("get_business_count", NoArgs)
         ELSE IF has(<<"h","o","w"," ","m","a","n","y"," ","u","s","e","r","s">>) \/ has(<<"u","s","e","r"," ","c","o","u","n","t">>)
         THEN Call("get_user_count", NoArgs)
         ELSE IF has(<<"i","n","d","u","s","t","r","y"," ","b","r","e","a","k","d","o","w","n">>)
         THEN Call("get_industry_breakdown", NoArgs)
         ELSE IF has(<<"f","i","n","d"," ","u","s","e","r">>) \/ has(<<"s","e","a","r","c","h"," ","u","s","e","r">>)
         THEN IF rest(2) # << >>
              THEN Call("search_users_by_name",
                        [search_term |-> rest(2), limit |-> Some(DefaultLimit)])
              ELSE NoCall
         ELSE IF AnyIn(industries, message_lower)
         THEN LET first == CHOOSE i \in 1..Len(industries) :
                              /\ has(industries[i])
                              /\ \A j \in 1..(i - 1) : ~has(industries[j])
              IN Call("search_businesses",
                      [NoBusinessArgs EXCEPT !.industry_sector = industries[first]])
         ELSE manual_default(agent)
    ELSE NoCall

\* the last line of handle_agent_manually
generic_reply(msg) ==
    << "I understand you're asking about ", Show(msg),
       ", but I need more specific information to help you." >>

(***************************************************************************)
(* The lookups of the aggregators.  An aggregator issues its first lookup, *)
(* and get_session_count and get_business_count a second one when the      *)
(* first returned rows; each lookup is a step of its own, so the store may *)
(* change between the two.                                                 *)
(***************************************************************************)
BusinessColumns == {"id", "user_id", "details", "users"}

UserColumns == {"id", "details"}

Tools ==
    {"get_conference_sessions", "get_all_speakers", "get_all_tracks", "get_all_rooms",
     "search_sessions_by_speaker", "search_sessions_by_topic", "get_session_count",
     "get_speaker_count", "search_businesses", "get_user_businesses",
     "get_business_count", "get_user_count", "search_users_by_name",
     "get_industry_breakdown"}

\* the collection a lookup of the tool reads
Table(tool) ==
    IF tool \in {"search_businesses", "get_user_businesses", "get_business_count",
                 "get_industry_breakdown"} THEN "ib_businesses"
    ELSE IF tool \in {"get_user_count", "search_users_by_name"} THEN "users"
    ELSE "conference_schedules"

\* what db_client.query returns to the tool's stage-th lookup when the service answers
ToolLookup(tool, args, stage) ==
    CASE tool = "get_conference_sessions" ->
           query(sessions, SessionColumns, session_filters(args), DateThenStart, args.limit, FALSE)
      [] tool = "get_all_speakers" ->
           query(sessions, {"speaker_name"}, << >>, << >>, Null, FALSE)
      [] tool = "get_all_tracks" ->
           query(sessions, {"track_name"}, << >>, << >>, Null, FALSE)
      [] tool = "get_all_rooms" ->
           query(sessions, {"conference_room_name"}, << >>, << >>, Null, FALSE)
      [] tool = "search_sessions_by_speaker" ->
           query(sessions, SessionColumns, << Eq("speaker_name", args.speaker_name) >>,
                 DateThenStart, Null, FALSE)
      [] tool = "search_sessions_by_topic" ->
           query(sessions, SessionColumns, << >>, << >>, Null, FALSE)
      [] tool = "get_session_count" ->
           IF stage = 1 THEN query(sessions, {"id"}, << >>, << >>, Null, FALSE)
           ELSE query(sessions, {"speaker_name", "track_name", "conference_room_name"},
                      << >>, << >>, Null, FALSE)
      [] tool = "get_speaker_count" ->
           query(sessions, {"speaker_name"}, << >>, << >>, Null, FALSE)
      [] tool = "search_businesses" ->
           query(JoinUsers(businesses, users), BusinessColumns, << >>, << >>, Null, FALSE)
      [] tool = "get_user_businesses" ->
           query(businesses, BusinessColumns, << Eq("user_id", args.user_id) >>, << >>, Null, FALSE)
      [] tool = "get_business_count" ->
           IF stage = 1 THEN query(businesses, {"id"}, << >>, << >>, Null, FALSE)
           ELSE query(businesses, {"details"}, << >>, << >>, Null, FALSE)
      [] tool = "get_user_count" ->
           query(users, {"id"}, << >>, << >>, Null, FALSE)
      [] tool = "search_users_by_name" ->
           query(users, UserColumns, << >>, << >>, Null, FALSE)
      [] tool = "get_industry_breakdown" ->
           query(businesses, {"details"}, << >>, << >>, Null, FALSE)

\* whether the tool goes on to a second lookup after the outcome r1 of its first
SecondLookup(tool, r1) ==
    /\ tool \in {"get_session_count", "get_business_count"}
    /\ ~r1.raised
    /\ Len(r1.value) > 0

\* the outcome of a lookup that was not issued
NotIssued == Returned(<< >>)

\* the text the tool returns, from the outcomes of its lookups
ToolOutput(tool, args, r1, r2) ==
    CASE tool = "get_conference_sessions" -> get_conference_sessions(r1)
      [] tool = "get_all_speakers" -> get_all_speakers(r1)
      [] tool = "get_all_tracks" -> get_all_tracks(r1)
      [] tool = "get_all_rooms" -> get_all_rooms(r1)
      [] tool = "search_sessions_by_speaker" -> search_sessions_by_speaker(args.speaker_name, r1)
      [] tool = "search_sessions_by_topic" -> search_sessions_by_topic(args.topic_keyword, r1)
      [] tool = "get_session_count" -> get_session_count(r1, r2)
      [] tool = "get_speaker_count" -> get_speaker_count(r1)
      [] tool = "search_businesses" -> search_businesses(args, r1)
      [] tool = "get_user_businesses" -> get_user_businesses(args.user_id, r1)
      [] tool = "get_business_count" -> get_business_count(r1, r2)
      [] tool = "get_user_count" -> get_user_count(r1)
      [] tool = "search_users_by_name" -> search_users_by_name(args.search_term, args.limit, r1)
      [] tool = "get_industry_breakdown" -> get_industry_breakdown(r1)

(***************************************************************************)
(* main.py: create_context, the customer-info block, the Response Envelope *)
(***************************************************************************)
conference_name == <<"A","v","i","a","t","i","o","n"," ","T","e","c","h"," ","S","u","m","m","i","t"," ","2","0","2","5">>

\* AirlineAgentContext(): every field at its default (context.py)
EmptyContext ==
    [confirmation_number |-> None, account_number |-> None, registration_id |-> None,
     user_id |-> None, business_details |-> Null, organization_id |-> None,
     user_name |-> None, email |-> None, is_conference_attendee |-> FALSE,
     conference_name |-> None]

\* the lookup by registration id of create_context, of the customer-info step and of get_user
user_lookup(rid) ==
    query(users, UserColumns, << JsonEq("details", "registration_id", rid) >>, << >>, Null, TRUE)

\* Seeded fault: only an absent registration id skips the lookups, an empty one is looked up
no_registration_id_none_only(rid) == rid = None

\* `if not registration_id` of create_context and `if request.registration_id` of
\* chat_endpoint: an absent and an empty registration id skip the lookup
no_registration_id(rid) == ~Truthy(rid)

\* Seeded fault: the attendee flag is set before the lookup result is tested
create_context_flag_first(rid, r) ==
    IF ~Truthy(rid) THEN Returned(EmptyContext)
    ELSE Returned([EmptyContext EXCEPT !.is_conference_attendee = TRUE])

\* Seeded fault: the lookup of create_context is not guarded by try/except
create_context_unguarded(rid, r) ==
    IF ~Truthy(rid) THEN Returned(EmptyContext)
    ELSE IF r.raised THEN r
    ELSE IF r.value # Null
    THEN Returned([EmptyContext EXCEPT !.user_id = r.value.id, !.registration_id = rid,
                      !.user_name = Get(r.value.details, "user_name", None),
                      !.email = Get(r.value.details, "email", None),
                      !.is_conference_attendee = TRUE, !.conference_name = conference_name])
    ELSE Returned(EmptyContext)

\* create_context, from the outcome r of its lookup (consulted only for a truthy
\* registration id).  The assignments run in order inside the try, so an exception
\* leaves the fields assigned before it: a row without id raises KeyError at once,
\* a null details bag raises AttributeError after user_id and registration_id.
create_context(rid, r) ==
    IF ~Truthy(rid) THEN Returned(EmptyContext)
    ELSE IF r.raised THEN Returned(EmptyContext)
    ELSE IF r.value # Null
    THEN IF "id" \notin DOMAIN r.value THEN Returned(EmptyContext)
         ELSE IF Get(r.value, "details", [none |-> TRUE]) = Null
         THEN Returned([EmptyContext EXCEPT !.user_id = r.value.id, !.registration_id = rid])
         ELSE LET details == Get(r.value, "details", [none |-> TRUE])
              IN Returned([EmptyContext EXCEPT
                              !.user_id = r.value.id,
                              !.registration_id = rid,
                              !.user_name = Get(details, "user_name", None),
                              !.email = Get(details, "email", None),
                              !.is_conference_attendee = TRUE,
                              !.conference_name = conference_name])
    ELSE Returned(EmptyContext)

\* the absent customer-info block
NoInfo == [absent |-> TRUE]

\* Seeded fault: the customer-info lookup is not guarded by try/except
build_customer_info_unguarded(rid, r) ==
    IF ~Truthy(rid) THEN Returned(NoInfo)
    ELSE IF r.raised THEN r
    ELSE Returned(NoInfo)

\* Seeded fault: the block is built from the context and not from a lookup
build_customer_info_no_lookup(rid, r) ==
    IF ~Truthy(rid) THEN Returned(NoInfo)
    ELSE Returned([customer |-> [name |-> None, email |-> None, registration_id |-> rid,
                                 is_conference_attendee |-> TRUE,
                                 conference_name |-> conference_name],
                   bookings |-> << >>])

\* the customer-info step of chat_endpoint, from the outcome r of its lookup.
\* details.get("user_name", f"{first} {last}").strip() raises on a null details
\* bag and on a stored null user_name; the f-string prints a null name as None.
build_customer_info(rid, r) ==
    IF ~Truthy(rid) THEN Returned(NoInfo)
    ELSE IF r.raised THEN Returned(NoInfo)
    ELSE IF r.value = Null THEN Returned(NoInfo)
    ELSE LET details == Get(r.value, "details", [none |-> TRUE])
         IN IF details = Null THEN Returned(NoInfo)
            ELSE LET first == Get(details, "firstName", << >>)
                     last == Get(details, "lastName", << >>)
                     name == Get(details, "user_name", Format(first) \o << " " >> \o Format(last))
                 IN IF name = None THEN Returned(NoInfo)
                    ELSE Returned([customer |-> [name |-> Strip(name),
                                                 email |-> Get(details, "email", None),
                                                 registration_id |-> rid,
                                                 is_conference_attendee |-> TRUE,
                                                 conference_name |-> conference_name],
                                   bookings |-> << >>])

\* the static agents list of the ChatResponse
HandlerDescriptors ==
    << [name |-> "Triage Agent", description |-> "Routes queries to appropriate specialists",
        handoffs |-> << "Schedule Agent", "Networking Agent" >>, tools |-> << >>,
        input_guardrails |-> << >>],
       [name |-> "Schedule Agent", description |-> "Conference schedule and speaker information",
        handoffs |-> << "Triage Agent" >>,
        tools |-> << "get_conference_sessions", "get_all_speakers", "get_all_tracks" >>,
        input_guardrails |-> << >>],
       [name |-> "Networking Agent", description |-> "Business networking and connections",
        handoffs |-> << "Triage Agent" >>,
        tools |-> << "search_businesses", "get_user_businesses", "get_business_count" >>,
        input_guardrails |-> << >>] >>

\* Seeded fault: the envelope lists only the agent that ran
ChatResponse_selected_only(conversation_id, agent, content, ctx, info) ==
    [conversation_id |-> IF Truthy(conversation_id) THEN conversation_id
                         ELSE <<"n","e","w","_","c","o","n","v","e","r","s","a","t","i","o","n">>,
     current_agent |-> agent,
     messages |-> << [content |-> content, agent |-> agent] >>,
     events |-> << >>,
     context |-> ctx,
     agents |-> SelectSeq(HandlerDescriptors, LAMBDA d : d.name = agent),
     guardrails |-> << >>,
     customer_info |-> info]

\* the ChatResponse chat_endpoint returns
ChatResponse(conversation_id, agent, content, ctx, info) ==
    [conversation_id |-> IF Truthy(conversation_id) THEN conversation_id
                         ELSE <<"n","e","w","_","c","o","n","v","e","r","s","a","t","i","o","n">>,
     current_agent |-> agent,
     messages |-> << [content |-> content, agent |-> agent] >>,
     events |-> << >>,
     context |-> ctx,
     agents |-> HandlerDescriptors,
     guardrails |-> << >>,
     customer_info |-> info]

\* the content chat_endpoint extracts from what the handler invocation returned:
\* response.output, response.get('output', str(response)) or str(response)
response_content(resp) ==
    IF resp.shape = "object" THEN resp.output
    ELSE IF resp.shape = "dict" THEN Get(resp, "output", << "str(response)" >>)
    ELSE resp.text

(***************************************************************************)
(* The requests.  pc is the place of the running request:                  *)
(*   "idle"  no request yet         "done"  the endpoint has answered      *)
(*   "create_context", "pattern1", "pattern2", "pattern3", "manual",       *)
(*   "tool", "customer_info"  the awaits of chat_endpoint, in order        *)
(* A lookup either returns what the store holds or raises (the store       *)
(* cannot be reached); the runner and Agent.run belong to the agents       *)
(* framework and either return a result or raise.                          *)
(***************************************************************************)
RegistrationIds == { None, << >>, R1, R2, R3, R9 }

ChatMessages ==
    { <<"H","i">>, <<"a","g","e","n","d","a">>, <<"s","p","e","a","k","e","r">>,
      <<"S","e","s","s","i","o","n"," ","c","o","u","n","t">>,
      <<"B","u","s","i","n","e","s","s">>,
      <<"b","u","s","i","n","e","s","s"," ","c","o","u","n","t">>,
      <<"u","s","e","r"," ","c","o","u","n","t">> }

\* the shapes of what a successful runner call returns
RunnerResults ==
    { [shape |-> "object", output |-> << "agent output" >>],
      [shape |-> "dict", output |-> << "agent output" >>],
      [shape |-> "dict"] }

NoResponse == [shape |-> "none"]

\* a str returned by manual dispatch
Text(t) == [shape |-> "str", text |-> t]

NoReply == [endpoint |-> "none"]

\* the outcome of a lookup whose answer would be value: it raises or returns it
Outcome(raised, value) == IF raised THEN Raised ELSE Returned(value)

\* Seeded fault: the gateway issues a delete where it issues a select
execute_delete(rows) == << >>

\* Seeded fault: executing a lookup consumes the first row it read
execute_pop(rows) == IF rows = << >> THEN rows ELSE Tail(rows)

\* the rows of a collection after query.execute() of the select the gateway built
execute(rows) == rows

\* the store after a lookup on a collection: only a lookup that reached it executed
Executed(table, raised) ==
    /\ users' = IF table = "users" /\ ~raised THEN execute(users) ELSE users
    /\ sessions' = IF table = "conference_schedules" /\ ~raised THEN execute(sessions)
                   ELSE sessions
    /\ businesses' = IF table = "ib_businesses" /\ ~raised THEN execute(businesses)
                     ELSE businesses

\* the record of one lookup in queries: who issued it, on which collection, whether
\* it raised, and the rows it returned
Issued(by, table, r) ==
    [by |-> by, table |-> table, raised |-> r.raised,
     rows |-> IF r.raised THEN << >> ELSE r.value]

\* the same for a lookup with single=True, which returns the first row or None
IssuedSingle(by, table, r) ==
    [by |-> by, table |-> table, raised |-> r.raised,
     rows |-> IF r.raised THEN << >> ELSE IF r.value = Null THEN << >> ELSE << r.value >>]

Fresh ==
    /\ context = EmptyContext
    /\ selected_agent = "none"
    /\ attempts = << >>
    /\ call = [tool |-> "none", args |-> NoArgs, first |-> NotIssued]
    /\ response = NoResponse
    /\ customer_info = NoInfo
    /\ reply = NoReply
    /\ queries = << >>
    /\ previous = NoResponse
    /\ written = FALSE

\* a new request starts from nothing of the one before
StartFresh ==
    /\ context' = EmptyContext
    /\ selected_agent' = "none"
    /\ attempts' = << >>
    /\ call' = [tool |-> "none", args |-> NoArgs, first |-> NotIssued]
    /\ response' = NoResponse
    /\ customer_info' = NoInfo
    /\ reply' = NoReply
    /\ queries' = << >>
    /\ UNCHANGED twice

Init ==
    /\ users \in Collections(UserPool)
    /\ sessions = SessionPool
    /\ businesses = BusinessPool
    /\ message = << >>
    /\ registration_id = None
    /\ pc = "idle"
    /\ Fresh

\* POST /chat arrives
ChatBegin ==
    /\ pc \in {"idle", "done"}
    /\ message' \in ChatMessages
    /\ registration_id' \in RegistrationIds
    /\ pc' = "create_context"
    /\ StartFresh
    /\ UNCHANGED store

\* context = await create_context(request.registration_id);
\* selected_agent = determine_agent(request.message)
CreateContext ==
    /\ pc = "create_context"
    /\ \E raised \in BOOLEAN :
          LET r == Outcome(raised, user_lookup(registration_id))
              ctx == create_context(registration_id, r)
          IN /\ IF ctx.raised
                THEN /\ reply' = [endpoint |-> "/chat", status |-> 500]
                     /\ pc' = "done"
                     /\ UNCHANGED << context, selected_agent >>
                ELSE /\ context' = ctx.value
                     /\ selected_agent' = determine_agent(message)
                     /\ pc' = "pattern1"
                     /\ UNCHANGED reply
             /\ IF ~no_registration_id(registration_id)
                THEN /\ queries' = Append(queries, IssuedSingle("create_context", "users", r))
                     /\ Executed("users", raised)
                ELSE UNCHANGED << queries, store >>
    /\ UNCHANGED << message, registration_id, attempts, call, response, customer_info >>
    /\ UNCHANGED twice

\* Seeded fault: a failed delegated attempt falls straight through to manual dispatch
Attempt_straight_to_manual(here, next) ==
    /\ pc = here
    /\ \/ \E result \in RunnerResults :
             /\ response' = result
             /\ attempts' = Append(attempts, [step |-> here, raised |-> FALSE])
             /\ pc' = "customer_info"
       \/ /\ attempts' = Append(attempts, [step |-> here, raised |-> TRUE])
          /\ pc' = "manual"
          /\ UNCHANGED response
    /\ UNCHANGED << store, message, registration_id, context, selected_agent, call,
                    customer_info, reply, queries >>
    /\ UNCHANGED twice

\* one delegated attempt: it returns a result, or raises and the next place is tried
Attempt(here, next) ==
    /\ pc = here
    /\ \/ \E result \in RunnerResults :
             /\ response' = result
             /\ attempts' = Append(attempts, [step |-> here, raised |-> FALSE])
             /\ pc' = "customer_info"
       \/ /\ attempts' = Append(attempts, [step |-> here, raised |-> TRUE])
          /\ pc' = next
          /\ UNCHANGED response
    /\ UNCHANGED << store, message, registration_id, context, selected_agent, call,
                    customer_info, reply, queries >>
    /\ UNCHANGED twice

\* response = await runner.run(request.message, context=context)
Pattern1 == Attempt("pattern1", "pattern2")

\* response = await runner.run(request.message, agent=selected_agent, context=context)
Pattern2 == Attempt("pattern2", "pattern3")

\* response = await selected_agent.run(request.message, context=context)
Pattern3 == Attempt("pattern3", "manual")

\* Pattern 4: handle_triage_manually, or handle_agent_manually up to its aggregator call
Manual ==
    /\ pc = "manual"
    /\ attempts' = Append(attempts, [step |-> "manual", raised |-> FALSE])
    /\ IF selected_agent = triage_agent
       THEN /\ response' = Text(handle_triage_manually(message))
            /\ pc' = "customer_info"
            /\ UNCHANGED call
       ELSE LET c == manual_call(selected_agent, message)
            IN IF c = NoCall
               THEN /\ response' = Text(generic_reply(message))
                    /\ pc' = "customer_info"
                    /\ UNCHANGED call
               ELSE /\ call' = [tool |-> c.tool, args |-> c.args, first |-> NotIssued]
                    /\ pc' = "tool"
                    /\ UNCHANGED response
    /\ UNCHANGED << store, message, registration_id, context, selected_agent,
                    customer_info, reply, queries >>
    /\ UNCHANGED twice

\* where a request goes on when its aggregator has returned
AfterTool == IF attempts = << >> THEN "done" ELSE "customer_info"

\* the first lookup of the aggregator, and its return unless a second lookup follows
ToolFirstLookup ==
    /\ pc = "tool"
    /\ \E raised \in BOOLEAN :
          LET r1 == Outcome(raised, ToolLookup(call.tool, call.args, 1)) IN
          /\ queries' = Append(queries, Issued(call.tool, Table(call.tool), r1))
          /\ Executed(Table(call.tool), raised)
          /\ IF SecondLookup(call.tool, r1)
             THEN /\ call' = [call EXCEPT !.first = r1]
                  /\ pc' = "tool2"
                  /\ UNCHANGED response
             ELSE /\ response' = Text(ToolOutput(call.tool, call.args, r1, NotIssued))
                  /\ pc' = AfterTool
                  /\ UNCHANGED call
    /\ UNCHANGED << message, registration_id, context, selected_agent, attempts,
                    customer_info, reply >>
    /\ UNCHANGED twice

\* the second lookup of get_session_count and get_business_count, and their return
ToolSecondLookup ==
    /\ pc = "tool2"
    /\ \E raised \in BOOLEAN :
          LET r2 == Outcome(raised, ToolLookup(call.tool, call.args, 2)) IN
          /\ response' = Text(ToolOutput(call.tool, call.args, call.first, r2))
          /\ queries' = Append(queries, Issued(call.tool, Table(call.tool), r2))
          /\ Executed(Table(call.tool), raised)
    /\ pc' = AfterTool
    /\ UNCHANGED << message, registration_id, context, selected_agent, attempts,
                    call, customer_info, reply >>
    /\ UNCHANGED twice

ConversationIds == { None, <<"c","1">> }

\* Seeded fault: the customer-info step reuses the record the context lookup
\* returned and does not read the store again
CustomerInfo_snapshot ==
    /\ pc = "customer_info"
    /\ \E conversation_id \in ConversationIds :
          LET seen == SelectSeq(queries, LAMBDA q : q.by = "create_context")
              r == IF seen = << >> \/ seen[1].raised THEN Raised
                   ELSE Returned(IF seen[1].rows = << >> THEN Null ELSE seen[1].rows[1])
              info == build_customer_info(registration_id, r)
          IN /\ customer_info' = info.value
             /\ reply' = [endpoint |-> "/chat", status |-> 200,
                          body |-> ChatResponse(conversation_id, selected_agent,
                                                response_content(response),
                                                context, info.value)]
             /\ IF ~no_registration_id(registration_id)
                THEN queries' = Append(queries, IssuedSingle("customer_info", "users", r))
                ELSE UNCHANGED queries
    /\ pc' = "done"
    /\ UNCHANGED << store, message, registration_id, context, selected_agent, attempts,
                    call, response >>
    /\ UNCHANGED twice

\* the customer-info lookup and the return of the ChatResponse
CustomerInfo ==
    /\ pc = "customer_info"
    /\ \E raised \in BOOLEAN, conversation_id \in ConversationIds :
          LET r == Outcome(raised, user_lookup(registration_id))
              info == build_customer_info(registration_id, r)
          IN /\ IF info.raised
                THEN /\ reply' = [endpoint |-> "/chat", status |-> 500]
                     /\ UNCHANGED customer_info
                ELSE /\ customer_info' = info.value
                     /\ reply' = [endpoint |-> "/chat", status |-> 200,
                                  body |-> ChatResponse(conversation_id, selected_agent,
                                                        response_content(response),
                                                        context, info.value)]
             /\ IF ~no_registration_id(registration_id)
                THEN /\ queries' = Append(queries, IssuedSingle("customer_info", "users", r))
                     /\ Executed("users", raised)
                ELSE UNCHANGED << queries, store >>
    /\ pc' = "done"
    /\ UNCHANGED << message, registration_id, context, selected_agent, attempts,
                    call, response >>
    /\ UNCHANGED twice

\* Seeded fault: the handler has no except HTTPException clause, so its catch-all
\* turns the 404 into a 500
get_user_catch_all(rid, r) ==
    IF r.raised \/ r.value = Null
    THEN [endpoint |-> "/user", status |-> 500, detail |-> "Internal server error"]
    ELSE [endpoint |-> "/user", status |-> 200,
          body |-> [user_id |-> r.value.id, registration_id |-> rid,
                    status |-> "found", details |-> r.value.details]]

\* get_user, from the outcome r of its lookup: the record, the 404 raised inside
\* the try and re-raised by except HTTPException, or the 500 of the catch-all
get_user(rid, r) ==
    IF r.raised
    THEN [endpoint |-> "/user", status |-> 500, detail |-> "Internal server error"]
    ELSE IF r.value # Null
    THEN [endpoint |-> "/user", status |-> 200,
          body |-> [user_id |-> r.value.id, registration_id |-> rid,
                    status |-> "found", details |-> r.value.details]]
    ELSE [endpoint |-> "/user", status |-> 404, detail |-> "User not found"]

\* GET /user/{registration_id}
GetUser ==
    /\ pc \in {"idle", "done"}
    /\ \E rid \in RegistrationIds \ {None, << >>} :
          /\ registration_id' = rid
          /\ \E raised \in BOOLEAN :
                LET r == Outcome(raised, user_lookup(rid))
                IN /\ reply' = get_user(rid, r)
                   /\ queries' = << IssuedSingle("get_user", "users", r) >>
                   /\ Executed("users", raised)
    /\ message' = << >>
    /\ context' = EmptyContext
    /\ selected_agent' = "none"
    /\ attempts' = << >>
    /\ call' = [tool |-> "none", args |-> NoArgs, first |-> NotIssued]
    /\ response' = NoResponse
    /\ customer_info' = NoInfo
    /\ pc' = "done"
    /\ UNCHANGED twice

\* GET /health
HealthCheck ==
    /\ pc \in {"idle", "done"}
    /\ reply' = [endpoint |-> "/health", status |-> 200,
                 body |-> [status |-> "healthy",
                           message |-> "Conference Agent System is running"]]
    /\ message' = << >>
    /\ registration_id' = None
    /\ context' = EmptyContext
    /\ selected_agent' = "none"
    /\ attempts' = << >>
    /\ call' = [tool |-> "none", args |-> NoArgs, first |-> NotIssued]
    /\ response' = NoResponse
    /\ customer_info' = NoInfo
    /\ queries' = << >>
    /\ pc' = "done"
    /\ UNCHANGED store
    /\ UNCHANGED twice

\* every operation of the subsystem
Subsystem ==
    \/ ChatBegin \/ CreateContext \/ Pattern1 \/ Pattern2 \/ Pattern3 \/ Manual
    \/ ToolFirstLookup \/ ToolSecondLookup \/ CustomerInfo \/ GetUser \/ HealthCheck

\* the indices of the pool rows a collection holds
Present(rows, pool) == { i \in 1..Len(pool) : \E k \in 1..Len(rows) : rows[k] = pool[i] }

\* the collection with the pool's i-th row added if absent and removed if present
Toggle(rows, pool, i) ==
    Rows(pool, (Present(rows, pool) \ {i}) \cup ({i} \ Present(rows, pool)), 1)

\* another client of the store adds or removes a user record
WriteUsers ==
    /\ \E i \in 1..Len(UserPool) : users' = Toggle(users, UserPool, i)
    /\ UNCHANGED << sessions, businesses, message, registration_id, pc, context,
                    selected_agent, attempts, call, response, customer_info, reply, queries >>
    /\ UNCHANGED twice

Next == Subsystem \/ WriteUsers

Spec == Init /\ [][Next]_vars

(***************************************************************************)
(* SpecRoute: the pure functions of main.py applied to every message.      *)
(***************************************************************************)
InitRoute ==
    /\ users = UserPool
    /\ sessions = SessionPool
    /\ businesses = BusinessPool
    /\ message \in Messages
    /\ registration_id = None
    /\ pc = "idle"
    /\ Fresh

\* selected_agent = determine_agent(message)
Route ==
    /\ pc = "idle"
    /\ selected_agent' = determine_agent(message)
    /\ pc' = "routed"
    /\ UNCHANGED << store, message, registration_id, context, attempts, call, response,
                    customer_info, reply, queries >>
    /\ UNCHANGED twice

\* handle_triage_manually(message, context)
TriageManually ==
    /\ pc = "idle"
    /\ selected_agent' = triage_agent
    /\ response' = Text(handle_triage_manually(message))
    /\ pc' = "triaged"
    /\ UNCHANGED << store, message, registration_id, context, attempts, call,
                    customer_info, reply, queries >>
    /\ UNCHANGED twice

\* handle_agent_manually(agent, message, context) up to the aggregator it invokes
AgentManually ==
    /\ pc = "idle"
    /\ \E agent \in {schedule_agent, networking_agent} :
          /\ selected_agent' = agent
          /\ LET c == manual_call(agent, message)
             IN /\ call' = [tool |-> c.tool, args |-> c.args, first |-> NotIssued]
                /\ response' = IF c = NoCall THEN Text(generic_reply(message)) ELSE NoResponse
    /\ pc' = "dispatched"
    /\ UNCHANGED << store, message, registration_id, context, attempts,
                    customer_info, reply, queries >>
    /\ UNCHANGED twice

\* Pattern 4 of chat_endpoint for a message routed to the Triage Agent
TriageFallback ==
    /\ pc = "routed"
    /\ selected_agent = triage_agent
    /\ response' = Text(handle_triage_manually(message))
    /\ pc' = "fallback"
    /\ UNCHANGED << store, message, registration_id, context, selected_agent, attempts,
                    call, customer_info, reply, queries >>
    /\ UNCHANGED twice

NextRoute == Route \/ TriageManually \/ AgentManually \/ TriageFallback

SpecRoute == InitRoute /\ [][NextRoute]_vars

(***************************************************************************)
(* SpecAgg: every aggregator invoked as a tool, with other clients writing *)
(* to the store.                                                           *)
(***************************************************************************)
MaxLimit == 2

Limits == { Null } \cup { Some(n) : n \in 0..MaxLimit }

\* the limits given to the aggregators that truncate by a Python slice
SliceLimits == Limits \cup { Some(0 - 1) }

\* the invocations of the aggregators the model draws from
ToolCalls ==
    { Call("get_conference_sessions", [NoSessionArgs EXCEPT !.speaker_name = sp, !.limit = l]) :
          sp \in { None, <<"A">> }, l \in Limits }
    \cup { Call("get_conference_sessions", NoSessionArgs), Call("search_businesses", NoBusinessArgs) }
    \cup { Call(t, NoArgs) : t \in { "get_all_speakers", "get_all_tracks", "get_all_rooms",
                                     "get_session_count", "get_speaker_count",
                                     "get_business_count", "get_user_count",
                                     "get_industry_breakdown" } }
    \cup { Call("search_sessions_by_speaker", [speaker_name |-> sp]) : sp \in { <<"A">>, <<"Z">> } }
    \cup { Call("search_sessions_by_topic", [topic_keyword |-> k]) : k \in { <<"A","i">>, <<"z">> } }
    \cup { Call("search_businesses", [NoBusinessArgs EXCEPT !.industry_sector = ind, !.limit = l]) :
          ind \in { None, <<"t","e","c","h">>, <<"F","i","n">> }, l \in SliceLimits }
    \cup { Call("get_user_businesses", [user_id |-> u]) : u \in { <<"u","1">>, <<"u","9">> } }
    \cup { Call("search_users_by_name", [search_term |-> k, limit |-> l]) :
          k \in { <<"A","N">>, <<"z">> }, l \in SliceLimits \cup { Some(DefaultLimit) } }

InitAgg ==
    /\ users \in Collections(UserPool)
    /\ sessions \in Collections(SessionPool)
    /\ businesses \in Collections(BusinessPool)
    /\ message = << >>
    /\ registration_id = None
    /\ pc = "idle"
    /\ Fresh

\* the agents framework calls a tool of an agent
InvokeTool ==
    /\ pc = "idle"
    /\ \E c \in ToolCalls : call' = [tool |-> c.tool, args |-> c.args, first |-> NotIssued]
    /\ response' = NoResponse
    /\ queries' = << >>
    /\ pc' = "tool"
    /\ UNCHANGED << store, message, registration_id, context, selected_agent, attempts,
                    customer_info, reply >>
    /\ UNCHANGED twice

\* another client of the store adds or removes a row while a tool may still read it
WriteStore ==
    /\ pc # "done"
    /\ \/ /\ \E i \in 1..Len(UserPool) : users' = Toggle(users, UserPool, i)
          /\ UNCHANGED << sessions, businesses >>
       \/ /\ \E i \in 1..Len(SessionPool) : sessions' = Toggle(sessions, SessionPool, i)
          /\ UNCHANGED << users, businesses >>
       \/ /\ \E i \in 1..Len(BusinessPool) : businesses' = Toggle(businesses, BusinessPool, i)
          /\ UNCHANGED << users, sessions >>
    /\ UNCHANGED << message, registration_id, pc, context, selected_agent, attempts,
                    call, response, customer_info, reply, queries >>
    /\ UNCHANGED twice

NextAgg == InvokeTool \/ ToolFirstLookup \/ ToolSecondLookup \/ WriteStore

SpecAgg == InitAgg /\ [][NextAgg]_vars

(***************************************************************************)
(* Routing and manual dispatch (SpecRoute)                                 *)
(***************************************************************************)
\* C1: for every message determine_agent returns exactly one of the three handlers,
\* decided by the lower-cased message alone: the Schedule Agent when a schedule
\* keyword occurs in it (also when a networking keyword occurs too), otherwise the
\* Networking Agent when a networking keyword occurs, otherwise the Triage Agent.
C1_RoutingPrecedence ==
    pc = "routed" =>
       LET lowered == Lower(message)
           schedule_hit == \E i \in 1..Len(schedule_keywords) :
                              Contains(schedule_keywords[i], lowered)
           networking_hit == \E i \in 1..Len(networking_keywords) :
                                Contains(networking_keywords[i], lowered)
       IN /\ selected_agent \in Agents
          /\ schedule_hit => selected_agent = schedule_agent
          /\ ~schedule_hit /\ networking_hit => selected_agent = networking_agent
          /\ ~schedule_hit /\ ~networking_hit => selected_agent = triage_agent
          /\ determine_agent(lowered) = selected_agent

\* a message with a keyword of both sets, in mixed case, routed to the Schedule Agent
C1_Witness ==
    /\ pc = "routed"
    /\ message = <<"B","u","s","i","n","e","s","s"," ","S","e","s","s","i","o","n","s">>
    /\ selected_agent = schedule_agent

\* C7: in manual dispatch a message that holds none of the handler's literal phrases
\* invokes the handler's list-all aggregator with no filters: get_conference_sessions()
\* for the Schedule Agent, search_businesses() for the Networking Agent.
C7_ManualDefault ==
    pc = "dispatched" =>
       LET lowered == Lower(message) IN
       /\ selected_agent = schedule_agent /\ ~AnyIn(schedule_phrases, lowered)
             => /\ call.tool = "get_conference_sessions"
                /\ \A k \in DOMAIN call.args \ {"limit"} : call.args[k] = None
                /\ call.args.limit = Some(DefaultLimit)
                /\ response = NoResponse
       /\ selected_agent = networking_agent /\ ~AnyIn(networking_phrases, lowered)
             => /\ call.tool = "search_businesses"
                /\ \A k \in DOMAIN call.args \ {"limit"} : call.args[k] = None
                /\ call.args.limit = Some(DefaultLimit)
                /\ response = NoResponse

\* the Networking Agent dispatching a message that holds none of its phrases
C7_Witness ==
    /\ pc = "dispatched"
    /\ selected_agent = networking_agent
    /\ message = <<"H","i"," ","B","u","s","i","n","e","s","s">>
    /\ call.tool = "search_businesses"

(***************************************************************************)
(* Context loading (Spec)                                                  *)
(***************************************************************************)
\* create_context of the running /chat request has returned or raised
ContextCreated ==
    \/ pc \in {"pattern1", "pattern2", "pattern3", "manual", "tool", "tool2", "customer_info"}
    \/ pc = "done" /\ reply.endpoint = "/chat"

\* the lookup of create_context returned a user record
ContextHit ==
    /\ Truthy(registration_id)
    /\ ~queries[1].raised
    /\ queries[1].rows # << >>

\* create_context raised to chat_endpoint, which answers HTTP 500 before any attempt
ContextRaised == pc = "done" /\ reply.endpoint = "/chat" /\ attempts = << >>

\* C2: for every registration id that matches no user record, and for every
\* registration id whose lookup fails, create_context returns a context (it does
\* not raise to its caller) whose is_conference_attendee flag is false.
C2_MissOrFailure ==
    ContextCreated /\ ~ContextHit =>
       /\ ~ContextRaised
       /\ context.is_conference_attendee = FALSE

\* the lookup for the id of a stored user raised, and the context came back unflagged
C2_Witness ==
    /\ pc = "pattern1"
    /\ registration_id = R1
    /\ \E i \in 1..Len(users) : users[i].details.registration_id = R1
    /\ queries[1].by = "create_context"
    /\ queries[1].raised
    /\ context.is_conference_attendee = FALSE

ErrorOpenings ==
    { "Error fetching conference sessions: ", "Error fetching speakers: ",
      "Error fetching tracks: ", "Error fetching rooms: ", "Error searching sessions: ",
      "Error getting session count: ", "Error getting speaker count: ",
      "Error searching businesses: ", "Error fetching user businesses: ",
      "Error getting business count: ", "Error getting user count: ",
      "Error searching users: ", "Error getting industry breakdown: " }

\* every lookup and every delegated attempt of the answered /chat request failed
EverythingFailed ==
    /\ pc = "done"
    /\ reply.endpoint = "/chat"
    /\ \A i \in 1..Len(queries) : queries[i].raised
    /\ \A i \in 1..Len(attempts) : attempts[i].step # "manual" => attempts[i].raised

\* C5: POST /chat never ends in HTTP 500 because lookups fail or the runner is
\* unavailable: when the context lookup, every aggregator lookup, the customer-info
\* lookup and all delegated attempts fail, the endpoint still returns an envelope,
\* with the attendee flag false, customer_info absent, and an aggregator's error text
\* or one of the fixed texts of manual dispatch as content.
C5_ChatNeverFails ==
    /\ reply.endpoint = "/chat" => reply.status = 200
    /\ EverythingFailed =>
          LET content == reply.body.messages[1].content IN
          /\ reply.body.context.is_conference_attendee = FALSE
          /\ reply.body.customer_info = NoInfo
          /\ Len(attempts) = 4
          /\ \/ content[1] \in ErrorOpenings
             \/ content = handle_triage_manually(message)
             \/ content = generic_reply(message)

\* a request with a registration id whose three lookups and three attempts all failed
C5_Witness ==
    /\ EverythingFailed
    /\ registration_id = R1
    /\ Len(queries) = 3
    /\ reply.status = 200
    /\ reply.body.messages[1].content[1] = "Error getting business count: "

\* the steps of the handler invocation, in the order chat_endpoint tries them
CascadeOrder == << "pattern1", "pattern2", "pattern3", "manual" >>

\* C6: the handler invocation is a cascade in fixed order (runner.run without agent,
\* runner.run with the selected agent, selected_agent.run, manual dispatch): a later
\* step is attempted only after every earlier step raised, the first step that
\* succeeds supplies the response and no later step runs, and manual dispatch
\* (handle_triage_manually for the Triage Agent, handle_agent_manually otherwise)
\* runs only when all three delegated attempts failed.
C6_Cascade ==
    /\ Len(attempts) <= Len(CascadeOrder)
    /\ \A i \in 1..Len(attempts) :
          /\ attempts[i].step = CascadeOrder[i]
          /\ i < Len(attempts) => attempts[i].raised
    /\ response.shape \in {"object", "dict"} =>
          /\ attempts # << >>
          /\ attempts[Len(attempts)].step # "manual"
          /\ ~attempts[Len(attempts)].raised
          /\ response \in RunnerResults
    /\ pc \in {"tool", "tool2"} \/ response.shape = "str" =>
          /\ Len(attempts) = 4
          /\ \A i \in 1..3 : attempts[i].raised
          /\ selected_agent = triage_agent =>
                call.tool = "none" /\ response = Text(handle_triage_manually(message))
          /\ selected_agent # triage_agent =>
                \/ call.tool = manual_call(selected_agent, message).tool
                \/ call.tool = "none" /\ response = Text(generic_reply(message))
    /\ pc \in {"customer_info", "done"} /\ reply.endpoint # "/user" /\ reply.endpoint # "/health"
          => response # NoResponse

\* the second attempt succeeded after the first raised, and the request was answered
C6_Witness ==
    /\ pc = "done"
    /\ Len(attempts) = 2
    /\ attempts[1].raised
    /\ ~attempts[2].raised
    /\ response.shape = "object"
    /\ reply.status = 200

\* C8: every envelope chat_endpoint returns, whichever handler was selected and
\* whichever path produced the content, holds the same three Handler Descriptors
\* (Triage, Schedule, Networking), an empty events list, an empty guardrails list,
\* exactly one message whose agent equals current_agent, and current_agent equal to
\* the name of the handler determine_agent chose.
C8_Envelope ==
    reply.endpoint = "/chat" /\ reply.status = 200 =>
       LET body == reply.body IN
       /\ Len(body.agents) = 3
       /\ [i \in 1..3 |-> body.agents[i].name] = << triage_agent, schedule_agent, networking_agent >>
       /\ body.agents = HandlerDescriptors
       /\ body.events = << >>
       /\ body.guardrails = << >>
       /\ Len(body.messages) = 1
       /\ body.messages[1].agent = body.current_agent
       /\ body.current_agent = determine_agent(message)

\* an envelope of the Networking Agent whose content came from manual dispatch
C8_Witness ==
    /\ pc = "done"
    /\ reply.endpoint = "/chat"
    /\ reply.status = 200
    /\ Len(attempts) = 4
    /\ reply.body.current_agent = networking_agent
    /\ call.tool = "search_businesses"

\* the customer-info lookups the running request issued
CustomerLookups == SelectSeq(queries, LAMBDA q : q.by = "customer_info")

\* the customer-info block can be built from a record: its details hold no null
\* display name (details.get("user_name", ...).strip() raises on one)
Buildable(record) ==
    /\ record.details # Null
    /\ Get(record.details, "user_name", << >>) # None

\* C9: the customer-info block is built by a second lookup, independent of routing
\* and of the handler result: the lookup is attempted if and only if a registration
\* id was supplied, the block is present if and only if that lookup returned a user
\* record and the block was built without error, and a failure of the lookup leaves
\* the block absent without failing the request.
C9_CustomerInfo ==
    pc = "done" /\ reply.endpoint = "/chat" =>
       /\ reply.status = 200
       /\ Len(CustomerLookups) = (IF Truthy(registration_id) THEN 1 ELSE 0)
       /\ reply.body.customer_info = customer_info
       /\ customer_info # NoInfo <=>
             /\ CustomerLookups # << >>
             /\ ~CustomerLookups[1].raised
             /\ CustomerLookups[1].rows # << >>
             /\ Buildable(CustomerLookups[1].rows[1])
       /\ customer_info # NoInfo =>
             /\ customer_info.customer.registration_id = registration_id
             /\ customer_info.customer.email =
                   Get(CustomerLookups[1].rows[1].details, "email", None)

\* the context lookup missed and the customer-info lookup, after a write to the
\* store, returned the record: the block is present while the attendee flag is false
C9_Witness ==
    /\ pc = "done"
    /\ reply.endpoint = "/chat"
    /\ registration_id = R2
    /\ context.is_conference_attendee = FALSE
    /\ ~queries[1].raised
    /\ customer_info # NoInfo
    /\ customer_info.customer.name = <<"B","o"," ","L","i">>

\* any request handled by the subsystem, over HTTP or as a tool of an agent
Operation == Subsystem \/ InvokeTool

\* C10: no operation of the subsystem writes to the store: over any sequence of
\* /chat, /user and /health requests, on every dispatch path and for every
\* aggregator, the users, conference_schedules and ib_businesses collections are
\* left as they were by every step of the subsystem.
C10_ReadOnly == [][Operation => store' = store]_vars

\* a request that looked up four times (context, both lookups of get_business_count,
\* customer info), every lookup reaching the store
C10_Witness ==
    /\ pc = "done"
    /\ reply.endpoint = "/chat"
    /\ Len(queries) = 4
    /\ \A i \in 1..4 : ~queries[i].raised
    /\ call.tool = "get_business_count"

(***************************************************************************)
(* Failing lookups inside the aggregators (SpecAgg)                        *)
(***************************************************************************)
\* C4: every schedule and networking aggregator, when any of its lookups raises,
\* returns a formatted error string (its 'Error ...' literal followed by the
\* exception's text) and does not propagate the exception; this covers the second
\* lookup inside get_session_count and get_business_count as well as the first.
C4_AggregatorErrors ==
    pc = "done" /\ (\E i \in 1..Len(queries) : queries[i].raised) =>
       /\ response.shape = "str"
       /\ Len(response.text) = 2
       /\ response.text[1] \in ErrorOpenings
       /\ response.text[2] = Raised.value

\* get_session_count whose first lookup returned rows and whose second raised
C4_Witness ==
    /\ pc = "done"
    /\ call.tool = "get_session_count"
    /\ Len(queries) = 2
    /\ ~queries[1].raised
    /\ queries[2].raised
    /\ response.text[1] = "Error getting session count: "

(***************************************************************************)
(* GET /user (Spec)                                                        *)
(***************************************************************************)
\* C11: GET /user/{registration_id} answers 200 with status 'found' when the lookup
\* returns a record, 404 'User not found' when it returns none, and 500 when the
\* lookup raises; the 404 raised inside the handler is not turned into a 500 by the
\* handler's catch-all.
C11_GetUser ==
    reply.endpoint = "/user" =>
       /\ Len(queries) = 1
       /\ queries[1].raised =>
             reply.status = 500 /\ reply.detail = "Internal server error"
       /\ ~queries[1].raised /\ queries[1].rows # << >> =>
             /\ reply.status = 200
             /\ reply.body.status = "found"
             /\ reply.body.registration_id = registration_id
             /\ reply.body.user_id = queries[1].rows[1].id
             /\ reply.body.details = queries[1].rows[1].details
       /\ ~queries[1].raised /\ queries[1].rows = << >> =>
             reply.status = 404 /\ reply.detail = "User not found"

\* the id of a user another client removed from the store: the lookup returns none
C11_Witness ==
    /\ reply.endpoint = "/user"
    /\ registration_id = R1
    /\ ~queries[1].raised
    /\ reply.status = 404

(***************************************************************************)
(* search_businesses: filter and limit (SpecAgg)                           *)
(***************************************************************************)
\* the pieces of a text that follow the piece marker, in order
RECURSIVE After(_, _, _)
After(text, marker, j) ==
    IF j > Len(text) THEN << >>
    ELSE IF text[j - 1] = marker THEN << text[j] >> \o After(text, marker, j + 1)
    ELSE After(text, marker, j + 1)

\* the company names a text of search_businesses lists, in order
Companies(text) == After(text, ". **", 2)

\* search_businesses has returned from a lookup that returned rows, filtering by industry
IndustrySearchDone ==
    /\ pc = "done"
    /\ call.tool = "search_businesses"
    /\ ~queries[1].raised
    /\ Truthy(call.args.industry_sector)

\* the rows of the lookup whose industrySector contains the filter, in source order
IndustryMatches ==
    SelectSeq(queries[1].rows, LAMBDA b :
        Contains(Lower(call.args.industry_sector), Lower(b.details.industrySector)))

\* the companies the same call without the industry filter lists over the same rows
UnfilteredCompanies(limit) ==
    Companies(search_businesses([call.args EXCEPT !.industry_sector = None, !.limit = limit],
                                Returned(queries[1].rows)))

\* the companies listed are those of the first rows of IndustryMatches
PrefixOfMatches(shown) ==
    /\ Len(shown) <= Len(IndustryMatches)
    /\ \A i \in 1..Len(shown) : shown[i] = Show(IndustryMatches[i].details.companyName)

\* C12 as stated: with an industry filter search_businesses returns only rows whose
\* industrySector contains the filter case-insensitively, at most limit rows taken as
\* a prefix of the matching rows in source order, and every row it returns is also
\* returned by the unfiltered call with the same limit.
C12_Original ==
    IndustrySearchDone =>
       LET shown == Companies(response.text) IN
       /\ PrefixOfMatches(shown)
       /\ call.args.limit # Null => Len(shown) <= call.args.limit.int
       /\ \A i \in 1..Len(shown) :
             \E k \in 1..Len(UnfilteredCompanies(call.args.limit)) :
                UnfilteredCompanies(call.args.limit)[k] = shown[i]

\* C12 amended: the rows returned are a prefix of the matching rows in source order,
\* the first limit of them when limit is positive, and every row returned is also
\* returned by the unfiltered call without a limit.
C12_FilterThenLimit ==
    IndustrySearchDone =>
       LET shown == Companies(response.text)
           limit == call.args.limit
       IN /\ PrefixOfMatches(shown)
          /\ limit # Null /\ limit.int > 0 =>
                Len(shown) = (IF limit.int < Len(IndustryMatches) THEN limit.int
                              ELSE Len(IndustryMatches))
          /\ \A i \in 1..Len(shown) :
                \E k \in 1..Len(UnfilteredCompanies(Null)) :
                   UnfilteredCompanies(Null)[k] = shown[i]

\* filter Fin with limit 1 over a collection whose first row does not match: the
\* one row returned is the second row of the collection
C12_Witness ==
    /\ IndustrySearchDone
    /\ call.args.industry_sector = <<"F","i","n">>
    /\ call.args.limit = Some(1)
    /\ Len(queries[1].rows) >= 2
    /\ Companies(response.text) = << "Bank" >>
    /\ UnfilteredCompanies(Some(1)) = << "Acme" >>

(***************************************************************************)
(* SpecTwice: a count aggregator called, and then called again             *)
(***************************************************************************)
CountTools == { "get_session_count", "get_speaker_count", "get_business_count",
                "get_user_count" }

\* one collection holds any part of its pool, the other two hold all of theirs
InitTwice ==
    /\ \/ /\ users \in Collections(UserPool)
          /\ sessions = SessionPool
          /\ businesses = BusinessPool
       \/ /\ users = UserPool
          /\ sessions \in Collections(SessionPool)
          /\ businesses = BusinessPool
       \/ /\ users = UserPool
          /\ sessions = SessionPool
          /\ businesses \in Collections(BusinessPool)
    /\ message = << >>
    /\ registration_id = None
    /\ pc = "idle"
    /\ Fresh

\* the agents framework calls a count tool
InvokeCount ==
    /\ pc = "idle"
    /\ \E t \in CountTools : call' = [tool |-> t, args |-> NoArgs, first |-> NotIssued]
    /\ pc' = "tool"
    /\ previous' = NoResponse
    /\ written' = FALSE
    /\ UNCHANGED << store, message, registration_id, context, selected_agent, attempts,
                    response, customer_info, reply, queries >>

\* the framework calls the same tool a second time, and keeps what the first returned
InvokeAgain ==
    /\ pc = "done"
    /\ previous = NoResponse
    /\ previous' = [shape |-> "str", text |-> response.text,
                    raised |-> [i \in 1..Len(queries) |-> queries[i].raised]]
    /\ call' = [call EXCEPT !.first = NotIssued]
    /\ response' = NoResponse
    /\ queries' = << >>
    /\ pc' = "tool"
    /\ UNCHANGED << store, message, registration_id, context, selected_agent, attempts,
                    customer_info, reply, written >>

\* another client of the store adds or removes a row of the collection the tool
\* reads, once, during or between the two calls
WriteBetween ==
    /\ pc # "idle"
    /\ ~written
    /\ pc = "done" => previous = NoResponse
    /\ \/ /\ Table(call.tool) = "users"
          /\ \E i \in 1..Len(UserPool) : users' = Toggle(users, UserPool, i)
          /\ UNCHANGED << sessions, businesses >>
       \/ /\ Table(call.tool) = "conference_schedules"
          /\ \E i \in 1..Len(SessionPool) : sessions' = Toggle(sessions, SessionPool, i)
          /\ UNCHANGED << users, businesses >>
       \/ /\ Table(call.tool) = "ib_businesses"
          /\ \E i \in 1..Len(BusinessPool) : businesses' = Toggle(businesses, BusinessPool, i)
          /\ UNCHANGED << users, sessions >>
    /\ written' = TRUE
    /\ UNCHANGED << message, registration_id, pc, context, selected_agent, attempts,
                    call, response, customer_info, reply, queries, previous >>

NextTwice ==
    InvokeCount \/ ToolFirstLookup \/ ToolSecondLookup \/ InvokeAgain \/ WriteBetween

SpecTwice == InitTwice /\ [][NextTwice]_vars

\* the second of the two calls has returned
SecondDone == pc = "done" /\ previous # NoResponse

\* the lookups of the second call raised exactly where those of the first did
SameOutcomes == previous.raised = [i \in 1..Len(queries) |-> queries[i].raised]

ZeroRows ==
    /\ pc = "done"
    /\ queries # << >>
    /\ ~queries[1].raised
    /\ queries[1].rows = << >>

\* the literals the aggregators open their 'no results' message with
NoResultOpenings ==
    { "No conference sessions found matching the specified criteria.",
      "No speakers found in the conference database.",
      "No tracks found in the conference database.",
      "No rooms found in the conference database.",
      "No sessions found for speaker: ",
      "No sessions found containing topic keyword: ",
      "No businesses found in the database.",
      "No businesses found for user ID: ",
      "No users found in the database." }

\* the texts of the count aggregators for a count of zero
ZeroCounts ==
    { << "**Total Conference Sessions:** ", "0" >>, << "**Total Unique Speakers:** 0" >>,
      << "**Total Registered Businesses:** ", "0" >>, << "**Total Registered Users:** ", "0" >> }

\* C14: for every aggregator a lookup that succeeds with zero rows yields a 'no
\* results' message or a zero count, never an error string, and a text other than
\* the one the same call returns when the lookup fails; search_businesses answers
\* zero rows in the source collection and zero rows left by the filter with two
\* different messages.
C14_NotFound ==
    /\ ZeroRows =>
          /\ response.text[1] \notin ErrorOpenings
          /\ response.text[1] \in NoResultOpenings \/ response.text \in ZeroCounts
          /\ response.text # ToolOutput(call.tool, call.args, Raised, Raised)
          /\ call.tool = "search_businesses" =>
                response.text = << "No businesses found in the database." >>
    /\ IndustrySearchDone /\ queries[1].rows # << >> /\ IndustryMatches = << >> =>
          response.text = << "No businesses found matching the specified criteria." >>

\* search_businesses filtering by industry over an empty collection
C14_Witness ==
    /\ ZeroRows
    /\ call.tool = "search_businesses"
    /\ Truthy(call.args.industry_sector)
    /\ response.text = << "No businesses found in the database." >>

(***************************************************************************)
(* The row limit (SpecAgg)                                                 *)
(***************************************************************************)
\* the tool called with an integer limit has returned and its lookup returned
LimitedCallDone ==
    /\ pc = "done"
    /\ call.tool \in { "get_conference_sessions", "search_businesses", "search_users_by_name" }
    /\ call.args.limit # Null
    /\ ~queries[1].raised

\* the number of rows the call returned: the rows of the gateway's answer for
\* get_conference_sessions, which hands its limit to query, and the entries listed
\* for the two tools that truncate in memory
RowsReturned ==
    IF call.tool = "get_conference_sessions" THEN Len(queries[1].rows)
    ELSE Len(After(response.text, ". **", 2))

\* C15: for every integer limit passed to the gateway's query, to search_businesses
\* or to search_users_by_name, the number of rows returned is at most limit; this
\* includes limit = 0 and negative limits.
C15_LimitCaps == LimitedCallDone => RowsReturned <= call.args.limit.int

\* for a positive limit the cap holds
C15_PositiveLimit == LimitedCallDone /\ call.args.limit.int > 0 => RowsReturned <= call.args.limit.int

\* search_businesses with limit = 0 over three businesses lists all three
C15_ZeroLimit ==
    /\ LimitedCallDone
    /\ call.tool = "search_businesses"
    /\ call.args.limit = Some(0)
    /\ RowsReturned = 3

(***************************************************************************)
(* /chat without a registration id (Spec)                                  *)
(***************************************************************************)
\* the lookups the running request issued on the users collection
UsersLookups == SelectSeq(queries, LAMBDA q : q.table = "users")

\* the lookups create_context issued
ContextLookups == SelectSeq(queries, LAMBDA q : q.by = "create_context")

\* the /chat request has been answered
ChatAnswered == pc = "done" /\ reply.endpoint = "/chat"

\* C16 as stated: a /chat request without a registration id (absent or empty)
\* performs no lookup on the users collection at all, its context is the empty
\* context and its customer_info is absent; with a registration id create_context
\* issues exactly one single-record lookup.
C16_Original ==
    /\ ChatAnswered /\ ~Truthy(registration_id) =>
          /\ UsersLookups = << >>
          /\ context = EmptyContext
          /\ customer_info = NoInfo
    /\ ContextCreated /\ Truthy(registration_id) => Len(ContextLookups) = 1

\* C16 amended: without a registration id neither create_context nor the
\* customer-info step looks anything up: the context is the empty context and
\* customer_info is absent from the answer, and any lookup of the request is one
\* of the aggregator the message invoked; with a registration id create_context
\* issues exactly one single-record lookup, the first lookup of the request.
C16_NoIdNoLookup ==
    /\ ContextCreated /\ ~Truthy(registration_id) =>
          /\ context = EmptyContext
          /\ \A i \in 1..Len(queries) : queries[i].by = call.tool
    /\ ChatAnswered /\ ~Truthy(registration_id) =>
          /\ customer_info = NoInfo
          /\ reply.status = 200
          /\ reply.body.customer_info = NoInfo
          /\ reply.body.context = EmptyContext
    /\ ContextCreated /\ Truthy(registration_id) =>
          /\ Len(ContextLookups) = 1
          /\ queries[1].by = "create_context"
          /\ queries[1].table = "users"
          /\ Len(queries[1].rows) <= 1

\* 'user count' without a registration id, answered by manual dispatch: the one
\* lookup of the request is get_user_count's, on the users collection
C16_Witness ==
    /\ ChatAnswered
    /\ registration_id = << >>
    /\ context = EmptyContext
    /\ customer_info = NoInfo
    /\ Len(queries) = 1
    /\ queries[1].by = "get_user_count"
    /\ queries[1].table = "users"

(***************************************************************************)
(* Manual dispatch: 'sessions by <name>' (SpecRoute)                       *)
(***************************************************************************)
sessions_by == <<"s","e","s","s","i","o","n","s"," ","b","y">>

\* the phrases handle_agent_manually tests before 'sessions by'
EarlierPhrases == SubSeq(schedule_phrases, 1, 12)

\* what follows the first occurrence of the phrase in the message, blanks trimmed
Remainder(phrase, msg) ==
    LET lowered == Lower(msg)
        at == CHOOSE i \in 0..(Len(msg) - Len(phrase)) :
                 /\ SubSeq(lowered, i + 1, i + Len(phrase)) = phrase
                 /\ \A j \in 0..(i - 1) : SubSeq(lowered, j + 1, j + Len(phrase)) # phrase
    IN Strip(SubSeq(msg, at + Len(phrase) + 1, Len(msg)))

\* the Schedule Agent dispatched a message that holds 'sessions by <name>' and none
\* of the earlier phrases
SessionsByName ==
    /\ pc = "dispatched"
    /\ selected_agent = schedule_agent
    /\ Contains(sessions_by, Lower(message))
    /\ ~AnyIn(EarlierPhrases, Lower(message))
    /\ Remainder(sessions_by, message) # << >>

\* C17: in manual dispatch for the Schedule Agent a message containing 'sessions by
\* <name>' (and no earlier phrase) invokes search_sessions_by_speaker with the
\* remainder of the message after the phrase, wherever the phrase occurs.
C17_Remainder ==
    SessionsByName =>
       /\ call.tool = "search_sessions_by_speaker"
       /\ call.args.speaker_name = Remainder(sessions_by, message)

\* when the message starts with the phrase, the name is the remainder
C17_PhraseFirst ==
    SessionsByName /\ SubSeq(Lower(LStrip(message)), 1, Len(sessions_by) + 1) = sessions_by \o << " " >> =>
       /\ call.tool = "search_sessions_by_speaker"
       /\ JoinWords(Split(call.args.speaker_name)) = JoinWords(Split(Remainder(sessions_by, message)))

\* 'Hi Sessions by Bob': the speaker searched for is 'by Bob'
C17_Misplaced ==
    /\ SessionsByName
    /\ message = <<"H","i"," ","S","e","s","s","i","o","n","s"," ","b","y"," ","B","o","b">>
    /\ call.tool = "search_sessions_by_speaker"
    /\ call.args.speaker_name = <<"b","y"," ","B","o","b">>

(***************************************************************************)
(* The fallback triage handler (SpecRoute)                                 *)
(***************************************************************************)
\* a word of the list occurs in the lower-cased message
Occurs(words) == \E i \in 1..Len(words) : Contains(words[i], Lower(message))

\* C18: handle_triage_manually tests four cases in fixed order, first match wins:
\* greeting words, then schedule words, then networking words, then the default; a
\* message with a greeting word and a schedule or networking word gets the greeting
\* text, and every message gets exactly one of the four texts.
C18_TriageOrder ==
    pc = "triaged" =>
       /\ Occurs(greeting_words) => response.text = greeting_text
       /\ ~Occurs(greeting_words) /\ Occurs(schedule_guidance_words)
             => response.text = schedule_guidance_text
       /\ ~Occurs(greeting_words) /\ ~Occurs(schedule_guidance_words)
             /\ Occurs(networking_guidance_words)
             => response.text = networking_guidance_text
       /\ ~Occurs(greeting_words) /\ ~Occurs(schedule_guidance_words)
             /\ ~Occurs(networking_guidance_words)
             => response.text = default_guidance_text
       /\ Cardinality({ t \in { greeting_text, schedule_guidance_text,
                                networking_guidance_text, default_guidance_text } :
                           t = response.text }) = 1
       /\ Cardinality({ greeting_text, schedule_guidance_text,
                        networking_guidance_text, default_guidance_text }) = 4

\* a greeting word and a schedule word in one message: the greeting text
C18_Witness ==
    /\ pc = "triaged"
    /\ message = <<"H","i"," ","S","e","s","s","i","o","n","s">>
    /\ response.text = greeting_text

(***************************************************************************)
(* The name of the customer-info block (Spec)                              *)
(***************************************************************************)
\* the customer-info lookup of the answered request returned a user record
CustomerRecordFound ==
    /\ ChatAnswered
    /\ CustomerLookups # << >>
    /\ ~CustomerLookups[1].raised
    /\ CustomerLookups[1].rows # << >>

\* first name and last name joined by a blank and trimmed
FirstAndLast(details) ==
    Strip(Get(details, "firstName", << >>) \o << " " >> \o Get(details, "lastName", << >>))

\* C19: whenever the customer-info lookup returns a user record with no stored
\* display name (user_name missing, null or empty) the customer-info block is
\* present and its name is the first name and the last name joined by a space and
\* trimmed; when a display name is stored, the name is that display name.
C19_NameFallback ==
    CustomerRecordFound =>
       LET details == CustomerLookups[1].rows[1].details
           stored == Get(details, "user_name", None)
       IN /\ customer_info # NoInfo
          /\ customer_info.customer.name =
                (IF Truthy(stored) THEN stored ELSE FirstAndLast(details))

\* the same for the records whose user_name is missing or a non-empty string
C19_MissingOrStored ==
    CustomerRecordFound /\ Get(CustomerLookups[1].rows[1].details, "user_name", << >>) # None =>
       LET details == CustomerLookups[1].rows[1].details
           stored == Get(details, "user_name", None)
       IN /\ customer_info # NoInfo
          /\ customer_info.customer.name =
                (IF stored # None THEN Strip(stored) ELSE FirstAndLast(details))

\* the record of R3 stores a null user_name: the lookup returned it and the block is absent
C19_NullName ==
    /\ CustomerRecordFound
    /\ registration_id = R3
    /\ CustomerLookups[1].rows[1].details.user_name = None
    /\ customer_info = NoInfo
    /\ reply.status = 200

(***************************************************************************)
(* SpecSpeakers: two of get_speaker_count, get_all_speakers and            *)
(* get_session_count, one after the other, over one session collection;    *)
(* another client may write to it once while the first of the two runs.    *)
(***************************************************************************)
\* sessions by speaker: B, A twice, an empty name, a blank name, a null name
SpeakerPool ==
    << [id |-> <<"1">>, speaker_name |-> <<"B">>],
       [id |-> <<"2">>, speaker_name |-> <<"A">>],
       [id |-> <<"3">>, speaker_name |-> <<"A">>],
       [id |-> <<"4">>, speaker_name |-> << >>],
       [id |-> <<"5">>, speaker_name |-> <<" ">>],
       [id |-> <<"6">>, speaker_name |-> None] >>

SpeakerTools == { "get_speaker_count", "get_all_speakers", "get_session_count" }

InitSpeakers ==
    /\ users = UserPool
    /\ sessions \in Collections(SpeakerPool)
    /\ businesses = BusinessPool
    /\ message = << >>
    /\ registration_id = None
    /\ pc = "idle"
    /\ Fresh

\* the agents framework calls one of the two speaker tools
InvokeSpeakerTool ==
    /\ pc = "idle"
    /\ \E t \in SpeakerTools : call' = [tool |-> t, args |-> NoArgs, first |-> NotIssued]
    /\ pc' = "tool"
    /\ UNCHANGED << store, message, registration_id, context, selected_agent, attempts,
                    response, customer_info, reply, queries >>
    /\ UNCHANGED twice

\* the framework then calls the other speaker tool, and keeps what the first returned
InvokeOther ==
    /\ pc = "done"
    /\ previous = NoResponse
    /\ previous' = [shape |-> "str", text |-> response.text,
                    raised |-> [i \in 1..Len(queries) |-> queries[i].raised],
                    tool |-> call.tool]
    /\ \E t \in SpeakerTools \ { call.tool } :
          call' = [tool |-> t, args |-> NoArgs, first |-> NotIssued]
    /\ response' = NoResponse
    /\ queries' = << >>
    /\ pc' = "tool"
    /\ UNCHANGED << store, message, registration_id, context, selected_agent, attempts,
                    customer_info, reply, written >>

\* another client of the store adds or removes a session, once, while the first
\* tool runs
WriteSpeakers ==
    /\ pc \in { "tool", "tool2" }
    /\ previous = NoResponse
    /\ ~written
    /\ \E i \in 1..Len(SpeakerPool) : sessions' = Toggle(sessions, SpeakerPool, i)
    /\ written' = TRUE
    /\ UNCHANGED << users, businesses, message, registration_id, pc, context, selected_agent,
                    attempts, call, response, customer_info, reply, queries, previous >>

NextSpeakers ==
    InvokeSpeakerTool \/ ToolFirstLookup \/ ToolSecondLookup \/ InvokeOther \/ WriteSpeakers

SpecSpeakers == InitSpeakers /\ [][NextSpeakers]_vars

\* both speaker tools have returned, neither lookup having raised
BothSpeakerToolsDone ==
    /\ SecondDone
    /\ ~written
    /\ { call.tool, previous.tool } = { "get_speaker_count", "get_all_speakers" }
    /\ previous.raised = << FALSE >>
    /\ ~queries[1].raised

\* the text of get_speaker_count and the text of get_all_speakers
CountText == IF call.tool = "get_speaker_count" THEN response.text ELSE previous.text

ListingText == IF call.tool = "get_all_speakers" THEN response.text ELSE previous.text

\* the speaker names of the collection that are neither absent, empty nor blank
ValidSpeakers ==
    { sessions[i].speaker_name : i \in { j \in 1..Len(sessions) :
          /\ sessions[j].speaker_name # None
          /\ \E k \in 1..Len(sessions[j].speaker_name) : sessions[j].speaker_name[k] # " " } }

\* the names get_all_speakers lists, in order
Listed == After(ListingText, ". ", 2)

\* C20: for every session collection get_speaker_count reports the number of
\* distinct speaker_name values after discarding absent, empty and whitespace-only
\* values, and this number is the total in the header of get_all_speakers over the
\* same collection, whose list is deduplicated and sorted lexicographically.
C20_SpeakerCount ==
    BothSpeakerToolsDone =>
       /\ IF ValidSpeakers = {}
          THEN /\ CountText \in { << "**Total Unique Speakers:** 0" >>,
                                  << "**Total Unique Speakers:** ", "0" >> }
               /\ Listed = << >>
          ELSE /\ CountText = << "**Total Unique Speakers:** ", ToString(Cardinality(ValidSpeakers)) >>
               /\ ListingText[1] = "**Conference Speakers ("
               /\ ListingText[2] = CountText[2]
               /\ Len(Listed) = Cardinality(ValidSpeakers)
               /\ \A i \in 1..Len(Listed) : \E n \in ValidSpeakers : Show(n) = Listed[i]
               /\ \A i \in 1..(Len(Listed) - 1) :
                     \E a, b \in ValidSpeakers :
                        /\ Show(a) = Listed[i]
                        /\ Show(b) = Listed[i + 1]
                        /\ StrLess(a, b)

\* rows B, A, A, an empty name and a blank name: the count is 2 and the list is A, B
C20_Witness ==
    /\ BothSpeakerToolsDone
    /\ Len(sessions) = 5
    /\ call.tool = "get_all_speakers"
    /\ CountText = << "**Total Unique Speakers:** ", "2" >>
    /\ ListingText[2] = "2"
    /\ Listed = << "A", "B" >>

(***************************************************************************)
(* The two lookups of one /chat request and a concurrent writer (Spec)     *)
(***************************************************************************)
\* what a single-record lookup by the registration id finds in the store as it is
StoredNow ==
    LET found == user_lookup(registration_id)
    IN IF found = Null THEN << >> ELSE << found >>

\* the lookup the step appends to the log
Appended == queries'[Len(queries')]

\* C21: the lookups of one /chat request are not isolated from concurrent writers:
\* the context lookup, before the handler, and the customer-info lookup, after it,
\* each read the store as it is at their own step, the attendee flag follows the
\* first and the customer-info block the second, so a writer between them can make
\* the envelope carry a false flag with a block, or a true flag without one.
C21_NotIsolated ==
    [][ /\ (pc = "create_context" /\ pc' # pc /\ Truthy(registration_id)) =>
              /\ Appended.by = "create_context"
              /\ ~Appended.raised => Appended.rows = StoredNow
              /\ context'.is_conference_attendee = (~Appended.raised /\ StoredNow # << >>)
        /\ (pc = "customer_info" /\ pc' # pc /\ Truthy(registration_id)) =>
              /\ Appended.by = "customer_info"
              /\ ~Appended.raised => Appended.rows = StoredNow
              /\ (customer_info' # NoInfo) =
                    (~Appended.raised /\ StoredNow # << >> /\ Buildable(StoredNow[1]))
              /\ reply'.body.context = context
              /\ reply'.body.customer_info = customer_info'
      ]_vars

\* the record of R1 was there for the context lookup and gone for the
\* customer-info lookup: the flag is true and the block is absent
C21_Witness ==
    /\ ChatAnswered
    /\ registration_id = R1
    /\ ~queries[1].raised
    /\ queries[1].rows # << >>
    /\ ~CustomerLookups[1].raised
    /\ CustomerLookups[1].rows = << >>
    /\ reply.body.context.is_conference_attendee = TRUE
    /\ reply.body.customer_info = NoInfo

(***************************************************************************)
(* The triage fallback as /chat reaches it (SpecRoute)                     *)
(***************************************************************************)
\* the strings of a list
Among(words) == { words[i] : i \in 1..Len(words) }

\* C22: whenever chat_endpoint reaches handle_triage_manually the reply is the
\* greeting text or the default-guidance text: the schedule-guidance and the
\* networking-guidance branches cannot be reached from /chat, every trigger word of
\* the two being a keyword by which determine_agent selects another handler.
C22_GuidanceUnreachable ==
    /\ Among(schedule_guidance_words) \subseteq Among(schedule_keywords)
    /\ Among(networking_guidance_words) \subseteq Among(networking_keywords)
    /\ pc = "fallback" =>
          /\ selected_agent = triage_agent
          /\ response.text \in { greeting_text, default_guidance_text }
          /\ ~Occurs(schedule_guidance_words)
          /\ ~Occurs(networking_guidance_words)

\* a message with no keyword and no greeting word, answered with the default text
C22_Witness ==
    /\ pc = "fallback"
    /\ message = <<"B","o","b"," ","b","y">>
    /\ response.text = default_guidance_text

(***************************************************************************)
(* The speaker numbers of get_session_count (SpecSpeakers)                 *)
(***************************************************************************)
\* get_session_count and get_speaker_count have both returned over one snapshot,
\* no lookup having raised, and the session count came with its statistics
BothCountsDone ==
    /\ SecondDone
    /\ ~written
    /\ { call.tool, previous.tool } = { "get_session_count", "get_speaker_count" }
    /\ \A i \in 1..Len(previous.raised) : ~previous.raised[i]
    /\ \A i \in 1..Len(queries) : ~queries[i].raised
    /\ sessions # << >>

SessionCountText == IF call.tool = "get_session_count" THEN response.text ELSE previous.text

SpeakerCountText == IF call.tool = "get_speaker_count" THEN response.text ELSE previous.text

\* get_session_count has returned its statistics, both lookups having returned
SessionStatsDone ==
    /\ pc = "done"
    /\ call.tool = "get_session_count"
    /\ Len(queries) = 2
    /\ ~queries[1].raised
    /\ ~queries[2].raised

\* the number of distinct truthy values of a column among the rows of the second lookup
UniqueSeen(key) == Cardinality(TruthyValues(queries[2].rows, key))

\* C23: over the same store snapshot the 'Unique Speakers' number of
\* get_session_count equals the number get_speaker_count reports, for every session
\* collection including ones with empty, blank or absent speaker names; and with a
\* writer between the two lookups of get_session_count its unique speaker, track
\* and room counts never exceed the total it reports.
C23_SpeakerNumbers ==
    /\ BothCountsDone =>
          /\ SessionCountText[4] = "\n- Unique Speakers: "
          /\ SpeakerCountText[1] = "**Total Unique Speakers:** "
          /\ SessionCountText[5] = SpeakerCountText[2]
    /\ SessionStatsDone =>
          /\ response.text[2] = ToString(Len(queries[1].rows))
          /\ response.text[5] = ToString(UniqueSeen("speaker_name"))
          /\ UniqueSeen("speaker_name") <= Len(queries[1].rows)
          /\ UniqueSeen("track_name") <= Len(queries[1].rows)
          /\ UniqueSeen("conference_room_name") <= Len(queries[1].rows)

\* the first half alone, for collections without a blank speaker name
C23_NoBlankName ==
    BothCountsDone /\ (\A i \in 1..Len(sessions) : sessions[i].speaker_name # << " " >>) =>
       SessionCountText[5] = SpeakerCountText[2]

\* the second half alone, when nobody wrote
C23_NoWriter ==
    SessionStatsDone /\ ~written =>
       /\ UniqueSeen("speaker_name") <= Len(queries[1].rows)
       /\ response.text[2] = ToString(Len(queries[1].rows))
       /\ response.text[5] = ToString(UniqueSeen("speaker_name"))

\* one session whose speaker name is a blank: get_session_count reports one unique
\* speaker and get_speaker_count none
C23_BlankCounted ==
    /\ BothCountsDone
    /\ Len(sessions) = 1
    /\ sessions[1].speaker_name = << " " >>
    /\ SessionCountText[5] = "1"
    /\ SpeakerCountText[2] = "0"

\* a writer added sessions between the two lookups: more speakers than sessions
C23_MoreSpeakersThanSessions ==
    /\ SessionStatsDone
    /\ written
    /\ response.text[2] = "1"
    /\ response.text[5] = "2"

(***************************************************************************)
(* Manual dispatch always invokes an aggregator? (SpecRoute)               *)
(***************************************************************************)
\* C24: for every message handle_agent_manually called with the Schedule Agent or
\* the Networking Agent invokes exactly one aggregator and returns its text; the
\* generic reply 'I understand you're asking about ...' is never returned for these
\* two handlers, also not for a message that matches an argument-taking phrase but
\* is too short to yield an argument.
C24_AlwaysAnAggregator ==
    pc = "dispatched" =>
       /\ call.tool \in Tools
       /\ response = NoResponse

\* the generic reply is returned only for a message of at most two words that holds
\* a phrase whose aggregator takes an argument from the third word on
C24_OnlyTooShort ==
    pc = "dispatched" /\ call.tool \notin Tools =>
       /\ response = Text(generic_reply(message))
       /\ Len(Split(message)) <= 2
       /\ selected_agent = schedule_agent
       /\ Contains(sessions_by, Lower(message))

\* 'Sessions by' with no name: no aggregator is invoked and the generic reply returned
C24_TooShort ==
    /\ pc = "dispatched"
    /\ selected_agent = schedule_agent
    /\ message = <<"S","e","s","s","i","o","n","s"," ","b","y">>
    /\ call = [tool |-> "none", args |-> NoArgs, first |-> NotIssued]
    /\ response.text[1] = "I understand you're asking about "

=============================================================================
